---- MODULE Spec2Model ----
(***************************************************************************)
(* FactChecker: the two-phase fetch / verify orchestrator of AgentManager  *)
(* (factCheckLinks), its per-link verification with the quote and figure   *)
(* grounding gate, and the companion fetch-url proxy it talks to.          *)
(*                                                                         *)
(* JavaScript strings are sequences of one-character strings; a message    *)
(* built from a template literal is the sequence of its pieces (tokens).   *)
(***************************************************************************)
EXTENDS Integers, Sequences, FiniteSets, TLC

\* ------------------------------------------------------------------------
\* Program constants
\* ------------------------------------------------------------------------
fetchBatchSize_OffByOne == 10 + 1

fetchBatchSize == 10
verifyBatchSize == 5
TextCap == 3000
LinksCap == 10

\* ------------------------------------------------------------------------
\* Bounds of the model
\* ------------------------------------------------------------------------
MaxLinks == 23

\* ------------------------------------------------------------------------
\* Strings
\* ------------------------------------------------------------------------
IsSpace(c) == c \in {" ", "\n", "\r", "\t"}

IsDigit(c) == c \in {"0", "1", "2", "3", "4", "5", "6", "7", "8", "9"}

IsLineTerminator(c) == c \in {"\n", "\r"}

LowerChar(c) ==
    CASE c = "A" -> "a" [] c = "B" -> "b" [] c = "C" -> "c" [] c = "D" -> "d"
      [] c = "E" -> "e" [] c = "F" -> "f" [] c = "G" -> "g" [] c = "H" -> "h"
      [] c = "I" -> "i" [] c = "J" -> "j" [] c = "K" -> "k" [] c = "L" -> "l"
      [] c = "M" -> "m" [] c = "N" -> "n" [] c = "O" -> "o" [] c = "P" -> "p"
      [] c = "Q" -> "q" [] c = "R" -> "r" [] c = "S" -> "s" [] c = "T" -> "t"
      [] c = "U" -> "u" [] c = "V" -> "v" [] c = "W" -> "w" [] c = "X" -> "x"
      [] c = "Y" -> "y" [] c = "Z" -> "z"
      [] OTHER -> c

\* String.prototype.toLowerCase
toLowerCase(s) == [i \in 1..Len(s) |-> LowerChar(s[i])]

RECURSIVE TrimStart(_)
TrimStart(s) ==
    IF s # <<>> /\ IsSpace(Head(s)) THEN TrimStart(Tail(s)) ELSE s

RECURSIVE TrimEnd(_)
TrimEnd(s) ==
    IF s # <<>> /\ IsSpace(s[Len(s)]) THEN TrimEnd(SubSeq(s, 1, Len(s) - 1)) ELSE s

\* String.prototype.trim
trim(s) == TrimEnd(TrimStart(s))

\* s.replace(/\s+/g, ' ')
RECURSIVE CollapseWs(_)
CollapseWs(s) ==
    IF s = <<>> THEN <<>>
    ELSE IF IsSpace(Head(s))
         THEN <<" ">> \o CollapseWs(TrimStart(s))
         ELSE <<Head(s)>> \o CollapseWs(Tail(s))

\* String.prototype.includes
includes(hay, needle) ==
    \E i \in 0..(Len(hay) - Len(needle)) : SubSeq(hay, i + 1, i + Len(needle)) = needle

\* String.prototype.substring(0, n)
substring0(s, n) == SubSeq(s, 1, IF Len(s) < n THEN Len(s) ELSE n)

\* ------------------------------------------------------------------------
\* JSON values the model can put in a field: null, a string, a non-string
\* ------------------------------------------------------------------------
JNull == [t |-> "null"]

JStr(s) == [t |-> "str", s |-> s]

JNum == [t |-> "num"]

\* v || ''  (null and the empty string are falsy)
OrEmpty(v) == IF v.t = "str" THEN v.s ELSE <<>>

\* v || null
OrNull(v) == IF v.t = "str" /\ v.s = <<>> THEN JNull ELSE v

\* ------------------------------------------------------------------------
\* AgentManager: grounding helpers
\* ------------------------------------------------------------------------
\* const collapse = s => String(s).toLowerCase().replace(/\s+/g, ' ').trim()
collapse(s) == trim(CollapseWs(toLowerCase(s)))

NonEmptyAndIn(needle, hay) == Len(needle) > 0 /\ includes(hay, needle)

_includesSanitized_Always(haystackLower, needleRaw) ==
    Len(collapse(needleRaw)) > 0

_includesSanitized(haystackLower, needleRaw) ==
    NonEmptyAndIn(collapse(needleRaw), trim(CollapseWs(haystackLower)))

\* length of the longest run of digits starting at position i, at most max
RECURSIVE DigitRun(_, _, _)
DigitRun(s, i, max) ==
    IF max = 0 \/ i > Len(s) \/ ~IsDigit(s[i]) THEN 0
    ELSE 1 + DigitRun(s, i + 1, max - 1)

\* end (exclusive) of the optional (?:\.\d+) tried at position j
FractionEnd(s, j, frac) == IF frac > 0 THEN j + 1 + frac ELSE j

FractionLen(s, j) ==
    IF j <= Len(s) /\ s[j] = "." THEN DigitRun(s, j + 1, Len(s)) ELSE 0

AfterDigits(s, j) == FractionEnd(s, j, FractionLen(s, j))

\* end (exclusive) of the match of /\d{1,3}(?:\.\d+)?/ starting at i, where s[i] is a digit
FigureEnd(s, i) == AfterDigits(s, i + DigitRun(s, i, 3))

\* [...String(text).matchAll(/(\d{1,3}(?:\.\d+)?)/g)].map(m => m[1])
RECURSIVE MatchAllFigures(_, _)
MatchFrom(s, i, e) == <<SubSeq(s, i, e - 1)>> \o MatchAllFigures(s, e)

MatchAllFigures(s, i) ==
    IF i > Len(s) THEN <<>>
    ELSE IF IsDigit(s[i])
         THEN MatchFrom(s, i, FigureEnd(s, i))
         ELSE MatchAllFigures(s, i + 1)

\* Array.from(new Set(matches)): first occurrences, in order
AppendNew(r, x) == IF \E k \in 1..Len(r) : r[k] = x THEN r ELSE Append(r, x)

RECURSIVE Unique(_)
Unique(q) ==
    IF q = <<>> THEN <<>>
    ELSE AppendNew(Unique(SubSeq(q, 1, Len(q) - 1)), q[Len(q)])

_extractFigures(text) ==
    IF text = <<>> THEN <<>> ELSE Unique(MatchAllFigures(text, 1))

\* the figure, used as a regular expression, matches q at position i
\* ('.' matches any character that is not a line terminator)
FigureMatchesAt(q, figure, i) ==
    /\ i + Len(figure) - 1 <= Len(q)
    /\ \A k \in 1..Len(figure) :
          IF figure[k] = "." THEN ~IsLineTerminator(q[i + k - 1])
          ELSE q[i + k - 1] = figure[k]

\* The pattern is built with a template literal, in which \n and \r are the
\* control characters and \d, \s are the letters d and s:
\*   (?<![<LF><CR>d]) figure (?:s*%){0,1} (?![d])
LookbehindOk(q, i) == i = 1 \/ q[i - 1] \notin {"\n", "\r", "d"}

LookaheadOk(q, j) == j > Len(q) \/ q[j] # "d"

\* (?:s*%){0,1}(?![d]) matches at position j
PercentTailOk(q, j) ==
    \/ LookaheadOk(q, j)
    \/ \E k \in j..Len(q) :
          /\ \A m \in j..(k - 1) : q[m] = "s"
          /\ q[k] = "%"
          /\ LookaheadOk(q, k + 1)

_quoteHasFigure(quote, figure) ==
    \E i \in 1..Len(quote) :
        /\ LookbehindOk(quote, i)
        /\ FigureMatchesAt(quote, figure, i)
        /\ PercentTailOk(quote, i + Len(figure))

\* ------------------------------------------------------------------------
\* Values
\* ------------------------------------------------------------------------
\* URLs are numbered: link i has url i, OtherUrl is any other address
OtherUrl == 0

NullUrl == -1

\* the JavaScript value undefined where a number is expected
Undefined == -1

\* `${n}` for a number or undefined
NumStr(n) == IF n = Undefined THEN "undefined" ELSE ToString(n)

Min(a, b) == IF a < b THEN a ELSE b

Range(f) == {f[x] : x \in DOMAIN f}

\* ------------------------------------------------------------------------
\* fetch-url proxy (onRequest)
\* ------------------------------------------------------------------------
ProxyTextCap == 5000

\* reason phrase the target server sends with a status code
ReasonPhrase(c) ==
    CASE c = 404 -> "Not Found"
      [] c = 403 -> "Forbidden"
      [] c = 500 -> "Internal Server Error"
      [] c = 503 -> "Service Unavailable"
      [] c = 304 -> "Not Modified"
      [] c = 429 -> "Too Many Requests"
      [] OTHER -> "OK"

\* extractTextAndLinks: whitespace collapsed, trimmed, excerpt of 5000 characters
extractText(visible) == substring0(trim(CollapseWs(visible)), ProxyTextCap)

JsonResponse(status, body) ==
    [rejected |-> FALSE, ok |-> (status >= 200 /\ status < 300), status |-> status, json |-> body]

\* the request never reached the proxy (fetch rejects in the browser)
RejectedResponse ==
    [rejected |-> TRUE, ok |-> FALSE, status |-> 0, json |-> [shape |-> "none"]]

\* the response of the proxy to GET ?url=<url>, given how the target behaves
onRequest(url, target) ==
    CASE target.kind = "badurl" ->
            JsonResponse(400, [shape |-> "error", error |-> <<"Invalid URL">>])
      [] target.kind = "unreachable" ->
            JsonResponse(500, [shape |-> "error", error |-> <<"fetch failed">>])
      [] target.kind = "status" ->
            JsonResponse(target.code,
                [shape |-> "upstream",
                 error |-> <<"Failed to fetch: ", NumStr(target.code), " ", ReasonPhrase(target.code)>>,
                 status |-> target.code])
      [] OTHER ->
            JsonResponse(200,
                [shape |-> "page",
                 text |-> extractText(target.text),
                 links |-> Min(target.links, LinksCap),
                 status |-> [url |-> IF target.redirected THEN OtherUrl ELSE url,
                             http_code |-> target.code]])

\* ------------------------------------------------------------------------
\* AgentManager: content fetcher
\* ------------------------------------------------------------------------
OptimisticStatus ==
    [ok |-> TRUE, status |-> 200, statusText |-> "OK", redirectUrl |-> NullUrl]

StatusText(httpCode) ==
    CASE httpCode = 404 -> "Not Found"
      [] httpCode = 403 -> "Forbidden"
      [] httpCode = 500 -> "Server Error"
      [] OTHER -> "Unknown"

\* data.status.http_code: undefined when data.status is a number
HttpCodeOf(body) ==
    IF body.shape = "page" THEN body.status.http_code ELSE Undefined

\* data.status.url: undefined when data.status is a number
StatusUrlOf(body) ==
    IF body.shape = "page" THEN body.status.url ELSE NullUrl

\* the object checkHttpStatus returns when nothing throws
StatusObject(url, httpCode, statusUrl) ==
    [ok |-> httpCode >= 200 /\ httpCode < 400,
     status |-> httpCode,
     statusText |-> StatusText(httpCode),
     redirectUrl |-> IF statusUrl # url THEN statusUrl ELSE NullUrl]

checkHttpStatus_FailedCatch(url, response) ==
    IF response.rejected \/ response.json.shape = "error"
    THEN [OptimisticStatus EXCEPT !.ok = FALSE, !.statusText = "Unknown"]
    ELSE StatusObject(url, HttpCodeOf(response.json), StatusUrlOf(response.json))

checkHttpStatus_OkAsResponseOk(url, response) ==
    IF response.rejected \/ response.json.shape = "error"
    THEN OptimisticStatus
    ELSE [StatusObject(url, HttpCodeOf(response.json), StatusUrlOf(response.json))
            EXCEPT !.ok = HttpCodeOf(response.json) >= 200 /\ HttpCodeOf(response.json) < 300]

\* the catch covers a rejected request and the TypeError of reading
\* http_code of an absent status
checkHttpStatus(url, response) ==
    IF response.rejected \/ response.json.shape = "error"
    THEN OptimisticStatus
    ELSE StatusObject(url, HttpCodeOf(response.json), StatusUrlOf(response.json))

NoContent == [has |-> FALSE, text |-> <<>>, links |-> 0]

\* [threw, content]: throws on a rejected request and on a non-ok response
fetchPageContent(url, response) ==
    IF response.rejected \/ ~response.ok
    THEN [threw |-> TRUE, content |-> NoContent]
    ELSE IF response.json.shape = "page"
    THEN [threw |-> FALSE,
          content |-> [has |-> TRUE,
                       text |-> substring0(response.json.text, TextCap),
                       links |-> Min(response.json.links, LinksCap)]]
    ELSE [threw |-> FALSE, content |-> [has |-> TRUE, text |-> <<>>, links |-> 0]]

NoStatus == [ok |-> FALSE, status |-> Undefined, statusText |-> "", redirectUrl |-> NullUrl]

\* const data = { link, httpStatus: null, pageContent: null, error: null }
NewFetchData ==
    [link |-> NullUrl, hasStatus |-> FALSE, httpStatus |-> NoStatus, pageContent |-> NoContent,
     error |-> <<>>]

\* ------------------------------------------------------------------------
\* AgentManager: LLM calls
\* ------------------------------------------------------------------------
NoKey == ""

\* let apiKey = this.openaiApiKey; if (!apiKey) apiKey = localStorage.getItem(...) || ''
EffectiveKey(agentKey, stored) == IF agentKey # NoKey THEN agentKey ELSE stored

\* _chatCompletion sends a request unless it throws for a missing key
_chatCompletionSends(apiKey) == apiKey # NoKey

Threw(msg) ==
    [threw |-> TRUE, message |-> msg, isNull |-> FALSE, verdict |-> FALSE,
     reasoning |-> <<>>, exactQuote |-> JNull]

Returned(verdict, reasoning, exactQuote) ==
    [threw |-> FALSE, message |-> <<>>, isNull |-> FALSE, verdict |-> verdict,
     reasoning |-> reasoning, exactQuote |-> exactQuote]

\* JSON.parse(content) is the value null
ReturnedNull ==
    [threw |-> FALSE, message |-> <<>>, isNull |-> TRUE, verdict |-> FALSE,
     reasoning |-> <<>>, exactQuote |-> JNull]

\* what every rejected call has in common: missing key, rejected request,
\* response body that is not JSON
TransportFailure(apiKey, llm) ==
    CASE ~_chatCompletionSends(apiKey) ->
            <<"OpenAI API key required. Please add your API key in settings.">>
      [] llm.kind = "reject" -> <<"Failed to fetch">>
      [] llm.kind = "badbody" -> <<"Unexpected end of JSON input">>
      [] OTHER -> <<>>

RelevanceErrorMsg(status) ==
    CASE status = 404 -> <<"AI model not found">>
      [] status = 401 -> <<"Invalid API key">>
      [] OTHER -> <<"API error ", NumStr(status)>>

\* the raw content, or the fixed text when it is empty
ContentOr(content) == IF content # "" THEN <<content>> ELSE <<"Unable to parse AI response">>

RelevanceOf(llm) ==
    CASE llm.kind = "status" ->
            Returned(TRUE,
                <<"Could not verify relevance (">> \o RelevanceErrorMsg(llm.status) \o <<").">>,
                JNull)
      [] llm.kind = "unparsable" -> Returned(TRUE, ContentOr(llm.content), JNull)
      [] llm.kind = "null" -> ReturnedNull
      [] OTHER -> Returned(llm.verdict, <<"${reasoning}">>, JNull)

OrThrow(failure, value) == IF failure # <<>> THEN Threw(failure) ELSE value

checkLinkRelevance(link, pageContent, apiKey, llm) ==
    OrThrow(TransportFailure(apiKey, llm), RelevanceOf(llm))

AnalysisErrorMsg(status) ==
    CASE status = 404 -> <<"AI model not found. Please check your API configuration.">>
      [] status = 401 -> <<"Invalid API key. Please update your OpenAI API key in settings.">>
      [] status = 429 -> <<"Rate limit exceeded. Please try again later.">>
      [] OTHER -> <<"AI API error: ", NumStr(status)>>

AnalysisOf(llm) ==
    CASE llm.kind = "status" -> Threw(AnalysisErrorMsg(llm.status))
      [] llm.kind = "unparsable" -> Returned(FALSE, ContentOr(llm.content), JNull)
      [] llm.kind = "null" -> ReturnedNull
      [] OTHER -> Returned(llm.verdict, <<"${reasoning}">>, llm.exactQuote)

\* called with page content only (the branch without content is never taken)
analyzeWithOpenAI(link, pageContent, apiKey, llm) ==
    OrThrow(TransportFailure(apiKey, llm), AnalysisOf(llm))

\* ------------------------------------------------------------------------
\* AgentManager: verification of one link
\* ------------------------------------------------------------------------
\* data.httpStatus?.redirectUrl || null
NewResult(link, data) ==
    [originalUrl |-> link.url,
     isCitation |-> link.isCitation,
     status |-> "checking",
     analysis |-> <<>>,
     exactQuote |-> JNull,
     redirectUrl |-> IF data.hasStatus THEN data.httpStatus.redirectUrl ELSE NullUrl]

\* data.error && data.httpStatus && !data.httpStatus.ok
IsHttpError(data) == data.error # <<>> /\ data.hasStatus /\ ~data.httpStatus.ok

handleVerificationError_KeepStatus(link, result, message) ==
    [result EXCEPT
        !.analysis = IF link.isCitation
                     THEN <<"Error during verification: ">> \o message
                     ELSE <<"Link appears to be working but verification failed: ">> \o message]

handleVerificationError_AlwaysInaccurate(link, result, message) ==
    [result EXCEPT
        !.status = "inaccurate",
        !.analysis = <<"Error during verification: ">> \o message]

\* the catch of verifyLink
handleVerificationError(link, result, message) ==
    [result EXCEPT
        !.status = IF link.isCitation THEN "inaccurate" ELSE "verified",
        !.analysis = IF link.isCitation
                     THEN <<"Error during verification: ">> \o message
                     ELSE <<"Link appears to be working but verification failed: ">> \o message]

RedirectSuffix(result) ==
    IF result.redirectUrl # NullUrl THEN <<" Redirects to: ", "${redirectUrl}">> ELSE <<>>

Outcome(threw, message, result) == [threw |-> threw, message |-> message, result |-> result]

\* lines 196-204, once the relevance check is there
RegularOutcome(r1, relevanceCheck) ==
    IF relevanceCheck.threw
    THEN Outcome(TRUE, relevanceCheck.message, r1)
    ELSE IF relevanceCheck.isNull
    THEN Outcome(TRUE, <<"Cannot read properties of null (reading 'isRelevant')">>, r1)
    ELSE Outcome(FALSE, <<>>,
            [r1 EXCEPT !.analysis =
                (IF relevanceCheck.verdict
                 THEN <<"Link is live and anchor text is relevant to the page.">>
                 ELSE <<"Link is live but anchor text may not match the page content well.">>)
                \o RedirectSuffix(r1)])

LiveAnalysis(result) ==
    IF result.redirectUrl # NullUrl
    THEN <<"Link is live. Redirects to: ", "${redirectUrl}">>
    ELSE <<"Link is live and working.">>

\* [threw, message, result]
verifyRegularLink(link, data, result, apiKey, llm) ==
    IF ~data.pageContent.has
    THEN Outcome(FALSE, <<>>, [result EXCEPT !.status = "verified", !.analysis = LiveAnalysis(result)])
    ELSE RegularOutcome([result EXCEPT !.status = "verified"],
                        checkLinkRelevance(link, data.pageContent, apiKey, llm))

NoQuoteReason == <<"no verifiable exact quote found in fetched content">>

FigureReason ==
    <<"expected figure not present in the on-page quote (", "${expectedFigures}", ")">>

\* lines 241-252: the reason for which the gate demotes, <<>> when it does not
GateReason(pageText, exactQuote, expectedFigures) ==
    IF ~(Len(exactQuote) > 0) \/ ~_includesSanitized(pageText, exactQuote)
    THEN NoQuoteReason
    ELSE IF Len(expectedFigures) > 0
            /\ ~\E k \in 1..Len(expectedFigures) :
                   _quoteHasFigure(exactQuote, expectedFigures[k])
         THEN FigureReason
         ELSE <<>>

\* the gate is applied only when the model said correct
gatingFailedReason(link, pageContent, analysis) ==
    IF analysis.verdict
    THEN GateReason(toLowerCase(pageContent.text),
                    trim(OrEmpty(analysis.exactQuote)),
                    _extractFigures(link.context))
    ELSE <<>>

\* lines 225-228
ModelVerdict(result, analysis) ==
    [result EXCEPT
        !.status = IF analysis.verdict THEN "verified" ELSE "inaccurate",
        !.analysis = analysis.reasoning,
        !.exactQuote = OrNull(analysis.exactQuote)]

Demote_KeepAnalysis(r, reason, analysis) ==
    IF reason # <<>> THEN [r EXCEPT !.status = "inaccurate"] ELSE r

\* lines 254-257
Demote(r, reason, analysis) ==
    IF reason # <<>>
    THEN [r EXCEPT
            !.status = "inaccurate",
            !.analysis = <<"Marked as Recheck: ">> \o reason \o <<". ">> \o analysis.reasoning]
    ELSE r

\* the single character U+2713 that opens the analysis of a verified citation
CheckMark == "U+2713"

\* lines 262-264
PrependQuote(r) ==
    IF r.status = "verified" /\ r.exactQuote.t # "null"
    THEN [r EXCEPT !.analysis =
              <<CheckMark, " Exact quote: \"", "${exactQuote}", "\"\n\n">> \o r.analysis]
    ELSE r

\* lines 266-268
AppendRedirect(r, data) ==
    IF r.redirectUrl # NullUrl /\ data.pageContent.has
    THEN [r EXCEPT !.analysis = r.analysis \o <<" Note: Link redirects to ", "${redirectUrl}">>]
    ELSE r

\* lines 225-268, once the analysis is there; an exactQuote that is not a
\* string makes (analysis.exactQuote || '').trim() throw
groundCitation(link, data, result, analysis) ==
    IF analysis.exactQuote.t = "num"
    THEN Outcome(TRUE, <<"(analysis.exactQuote || \"\").trim is not a function">>,
                 ModelVerdict(result, analysis))
    ELSE Outcome(FALSE, <<>>,
            AppendRedirect(
                PrependQuote(
                    Demote(ModelVerdict(result, analysis),
                           gatingFailedReason(link, data.pageContent, analysis),
                           analysis)),
                data))

ContentUnavailable ==
    <<"Content unavailable for verification. Could not fetch page content to confirm the claim.">>

CitationOutcome(link, data, result, analysis) ==
    IF analysis.threw
    THEN Outcome(TRUE, analysis.message, result)
    ELSE IF analysis.isNull
    THEN Outcome(TRUE, <<"Cannot read properties of null (reading 'isCorrect')">>, result)
    ELSE groundCitation(link, data, result, analysis)

verifyCitation_NoContentVerified(link, data, result, apiKey, llm) ==
    IF ~data.pageContent.has
    THEN Outcome(FALSE, <<>>, [result EXCEPT !.status = "verified", !.analysis = ContentUnavailable])
    ELSE CitationOutcome(link, data, result,
                         analyzeWithOpenAI(link, data.pageContent, apiKey, llm))

\* [threw, message, result]
verifyCitation(link, data, result, apiKey, llm) ==
    IF ~data.pageContent.has
    THEN Outcome(FALSE, <<>>, [result EXCEPT !.status = "inaccurate", !.analysis = ContentUnavailable])
    ELSE CitationOutcome(link, data, result,
                         analyzeWithOpenAI(link, data.pageContent, apiKey, llm))

HttpErrorAnalysis(data) ==
    <<"Link returns ">> \o data.error
        \o <<". The page does not exist or is not accessible.">>

\* the try block past the HTTP error branch
Dispatch(link, data, result, apiKey, llm) ==
    IF ~link.isCitation
    THEN verifyRegularLink(link, data, result, apiKey, llm)
    ELSE verifyCitation(link, data, result, apiKey, llm)

\* the catch, when the try block threw
Settle(link, v) ==
    IF v.threw THEN handleVerificationError(link, v.result, v.message) ELSE v.result

InvalidResult(result, data) ==
    [result EXCEPT !.status = "invalid", !.analysis = HttpErrorAnalysis(data)]

verifyLink_IgnoreHttpError(link, data, apiKey, llm) ==
    Settle(link, Dispatch(link, data, NewResult(link, data), apiKey, llm))

\* the result verifyLink resolves with and hands to onUpdate
verifyLink(link, data, apiKey, llm) ==
    IF IsHttpError(data)
    THEN InvalidResult(NewResult(link, data), data)
    ELSE Settle(link, Dispatch(link, data, NewResult(link, data), apiKey, llm))

\* verifyLink reaches an await of an LLM request (it has page content to judge)
CallsLlm(link, data) == ~IsHttpError(data) /\ data.pageContent.has

\* ------------------------------------------------------------------------
\* LinkExtractor: extraction of links, context and sentence
\* ------------------------------------------------------------------------
\* getContext: the cap of the context, and of a neighbouring sentence
ContextCap == 360
NeighbourCap == 180

\* the single character U+2026 appended to a truncated context
Ellipsis == "U+2026"

MinOf(S) == CHOOSE x \in S : \A y \in S : x <= y

MaxOf(S) == CHOOSE x \in S : \A y \in S : x >= y

\* -1 when there is no hit, as indexOf and lastIndexOf answer
FirstOrNone(hits) == IF hits = {} THEN -1 ELSE MinOf(hits)

LastOrNone(hits) == IF hits = {} THEN -1 ELSE MaxOf(hits)

\* String.prototype.slice(a, b) with 0 <= a; indices are 0-based as in the source
slice(s, a, b) == SubSeq(s, a + 1, Min(b, Len(s)))

StartsAt(s, pat, i) == SubSeq(s, i + 1, i + Len(pat)) = pat

\* String.prototype.indexOf(pat, from)
indexOf(s, pat, from) ==
    FirstOrNone({i \in from..(Len(s) - Len(pat)) : StartsAt(s, pat, i)})

\* String.prototype.lastIndexOf(pat, from)
lastIndexOf(s, pat, from) ==
    LastOrNone({i \in 0..Min(from, Len(s) - Len(pat)) : StartsAt(s, pat, i)})

\* the elements of a set of numbers in increasing order
Ascending(S) ==
    [k \in 1..Cardinality(S) |-> CHOOSE i \in S : Cardinality({j \in S : j <= i}) = k]

\* s.replace(/\s+/g, ' ') on the characters lo..hi of s
RECURSIVE ReplaceWs(_, _, _)
ReplaceWs(s, lo, hi) ==
    IF lo > hi THEN <<>>
    ELSE IF lo = hi
    THEN IF ~IsSpace(s[lo]) THEN <<s[lo]>>
         ELSE IF lo > 1 /\ IsSpace(s[lo - 1]) THEN <<>> ELSE <<" ">>
    ELSE ReplaceWs(s, lo, (lo + hi) \div 2) \o ReplaceWs(s, ((lo + hi) \div 2) + 1, hi)

\* const normalize = (s) => s.replace(/\s+/g, ' ').trim()
normalize(s) == trim(ReplaceWs(s, 1, Len(s)))

\* Array.prototype.join(' ')
RECURSIVE join(_)
join(parts) ==
    IF parts = <<>> THEN <<>>
    ELSE IF Len(parts) = 1 THEN parts[1]
    ELSE parts[1] \o <<" ">> \o join(Tail(parts))

\* /\[([^\]]+)\]\(([^)]+)\)/ tried at index i: the index of the closing
\* bracket and of the closing parenthesis, -1 when the pattern fails there
LinkBracket(s, i) == indexOf(s, <<"]">>, i + 1)

LinkParen(s, close) ==
    IF close >= 0 /\ close + 1 < Len(s) /\ s[close + 2] = "("
    THEN indexOf(s, <<")">>, close + 2)
    ELSE -1

LinkMatchesAt(s, i) ==
    /\ i < Len(s)
    /\ s[i + 1] = "["
    /\ LinkBracket(s, i) >= i + 2
    /\ LinkParen(s, LinkBracket(s, i)) >= LinkBracket(s, i) + 3

\* what exec returns: index, the two groups, and the new lastIndex
LinkMatchWith(s, i, close, paren) ==
    [index |-> i, text |-> slice(s, i + 1, close), url |-> slice(s, close + 2, paren),
     lastIndex |-> paren + 1]

LinkMatch(s, i) == LinkMatchWith(s, i, LinkBracket(s, i), LinkParen(s, LinkBracket(s, i)))

\* the index of the first match at or after from, -1 when there is none
NextLink(s, from) == FirstOrNone({i \in from..(Len(s) - 1) : LinkMatchesAt(s, i)})

\* the matches of the global regex from lastIndex on, in order
RECURSIVE LinkMatchesFrom(_, _)
LinkMatchesAfter(s, i) ==
    IF i < 0 THEN <<>> ELSE <<LinkMatch(s, i)>> \o LinkMatchesFrom(s, LinkMatch(s, i).lastIndex)

LinkMatchesFrom(s, from) == LinkMatchesAfter(s, NextLink(s, from))

\* the paragraph around a match: between the blank lines before and after it
ParagraphStartOf(before) == IF before = -1 THEN 0 ELSE before + 2

ParagraphStart(markdown, matchIndex) ==
    ParagraphStartOf(lastIndexOf(markdown, <<"\n", "\n">>, matchIndex))

ParagraphEndOf(markdown, after) == IF after = -1 THEN Len(markdown) ELSE after

ParagraphEnd(markdown, matchIndex, matchLength) ==
    ParagraphEndOf(markdown, indexOf(markdown, <<"\n", "\n">>, matchIndex + matchLength))

Paragraph(markdown, matchIndex, matchLength) ==
    slice(markdown, ParagraphStart(markdown, matchIndex),
          ParagraphEnd(markdown, matchIndex, matchLength))

IsSentenceEnd(c) == c \in {".", "!", "?"}

\* paragraphText.match(/[^.!?]+(?:[.!?]+|$)/g): a match starts at every
\* character that is no terminator and follows a terminator or starts the text
SentenceStarts(p) ==
    {i \in 1..Len(p) : ~IsSentenceEnd(p[i]) /\ (i = 1 \/ IsSentenceEnd(p[i - 1]))}

SentencesAt(p, starts) ==
    [k \in 1..Len(starts) |->
        SubSeq(p, starts[k], IF k < Len(starts) THEN starts[k + 1] - 1 ELSE Len(p))]

Sentences(p) == SentencesAt(p, Ascending(SentenceStarts(p)))

\* pos at the head of iteration k (1-based) of the loop over the sentences
RECURSIVE SentencePos(_, _)
SentencePos(sentences, k) ==
    IF k = 1 THEN 0 ELSE SentencePos(sentences, k - 1) + Len(sentences[k - 1])

\* the iterations whose test relativeIndex >= pos && relativeIndex <= pos + length holds
SentenceHits(sentences, relativeIndex) ==
    {k \in 1..Len(sentences) :
        /\ relativeIndex >= SentencePos(sentences, k)
        /\ relativeIndex <= SentencePos(sentences, k) + Len(sentences[k])}

\* currentIdx (1-based): the first hit, the first sentence when there is none
CurrentOf(hits) == IF hits = {} THEN 1 ELSE MinOf(hits)

SentenceOrEmpty(sentences, k) ==
    IF k >= 1 /\ k <= Len(sentences) THEN normalize(sentences[k]) ELSE <<>>

WithPrev(selected, prev) ==
    IF prev # <<>> /\ Len(prev) < NeighbourCap THEN <<prev>> \o selected ELSE selected

WithNext(selected, next) ==
    IF next # <<>> /\ Len(next) < NeighbourCap /\ (Len(join(selected)) + Len(next)) < ContextCap
    THEN selected \o <<next>>
    ELSE selected

Truncated(context) ==
    IF Len(context) > ContextCap THEN slice(context, 0, ContextCap) \o <<Ellipsis>> ELSE context

ContextAround(sentences, currentIdx) ==
    Truncated(join(
        WithNext(WithPrev(<<SentenceOrEmpty(sentences, currentIdx)>>,
                          SentenceOrEmpty(sentences, currentIdx - 1)),
                 SentenceOrEmpty(sentences, currentIdx + 1))))

ContextOf(paragraphText, sentences, relativeIndex) ==
    IF Len(sentences) = 0
    THEN slice(normalize(paragraphText), 0, ContextCap)
    ELSE ContextAround(sentences, CurrentOf(SentenceHits(sentences, relativeIndex)))

ContextIn(paragraphText, relativeIndex) ==
    IF paragraphText = <<>> THEN <<>>
    ELSE ContextOf(paragraphText, Sentences(paragraphText), relativeIndex)

\* LinkExtractor.getContext
getContext(markdown, matchIndex, matchLength) ==
    IF markdown = <<>> THEN <<>>
    ELSE ContextIn(Paragraph(markdown, matchIndex, matchLength),
                   matchIndex - ParagraphStart(markdown, matchIndex))

SentenceOf(paragraphText, sentences, hits) ==
    IF hits = {} THEN normalize(paragraphText) ELSE normalize(sentences[MinOf(hits)])

\* || [paragraphText] when the regex matches nothing
SentencesOrWhole(paragraphText, sentences) ==
    IF Len(sentences) = 0 THEN <<paragraphText>> ELSE sentences

SentenceAmong(paragraphText, sentences, relativeIndex) ==
    SentenceOf(paragraphText, sentences, SentenceHits(sentences, relativeIndex))

SentenceIn(paragraphText, relativeIndex) ==
    SentenceAmong(paragraphText,
                  SentencesOrWhole(paragraphText, Sentences(paragraphText)), relativeIndex)

\* LinkExtractor.getSentence
getSentence(markdown, matchIndex, matchLength) ==
    IF markdown = <<>> THEN <<>>
    ELSE SentenceIn(Paragraph(markdown, matchIndex, matchLength),
                    matchIndex - ParagraphStart(markdown, matchIndex))

\* ,\d{3} repeated greedily from position j (1-based): the position after the last group
RECURSIVE ThousandsEnd(_, _)
ThousandsEnd(s, j) ==
    IF j + 3 <= Len(s) /\ s[j] = "," /\ DigitRun(s, j + 1, 3) = 3
    THEN ThousandsEnd(s, j + 4)
    ELSE j

PercentEnd(s, j) == IF j <= Len(s) /\ s[j] = "%" THEN j + 1 ELSE j

\* end (exclusive, 1-based) of the match of \d{1,3}(?:,\d{3})*(?:\.\d+)?%? starting
\* at the digit at i; the second alternative of the regex is never reached,
\* the first one matches wherever a digit stands
NumberTokenEnd(s, i) == PercentEnd(s, AfterDigits(s, ThousandsEnd(s, i + DigitRun(s, i, 3))))

FirstDigit(s, from) == FirstOrNone({i \in from..Len(s) : IsDigit(s[i])})

RECURSIVE NumberTokensFrom(_, _)
NumberTokensAt(s, i, e) == <<SubSeq(s, i, e - 1)>> \o NumberTokensFrom(s, e)

NumberTokensAfter(s, i) == IF i < 0 THEN <<>> ELSE NumberTokensAt(s, i, NumberTokenEnd(s, i))

NumberTokensFrom(s, from) == NumberTokensAfter(s, FirstDigit(s, from))

\* LinkExtractor._extractNumberTokens
_extractNumberTokens(str) == NumberTokensFrom(str, 1)

DropTrailingPercent(s) ==
    IF s # <<>> /\ s[Len(s)] = "%" THEN SubSeq(s, 1, Len(s) - 1) ELSE s

\* const norm = (s) => s.replace(/,/g, '').replace(/%$/, '')
norm(s) == DropTrailingPercent(SelectSeq(s, LAMBDA c : c # ","))

\* sentence.replace(/\[([^\]]+)\]\(([^)]+)\)/g, '$1')
RECURSIVE AnchorsInlined(_, _)
InlineAt(s, from, m) ==
    slice(s, from, m.index) \o m.text \o AnchorsInlined(s, m.lastIndex)

InlineAfter(s, from, i) ==
    IF i < 0 THEN slice(s, from, Len(s)) ELSE InlineAt(s, from, LinkMatch(s, i))

AnchorsInlined(s, from) == InlineAfter(s, from, NextLink(s, from))

\* tokens.flatMap(t => this._extractNumberTokens(t))
RECURSIVE NumbersOfAnchors(_)
NumbersOfAnchors(matches) ==
    IF matches = <<>> THEN <<>>
    ELSE _extractNumberTokens(Head(matches).text) \o NumbersOfAnchors(Tail(matches))

\* Array.from(sentence.matchAll(linkRegex)).map(m => m[1]), then the numbers of
\* these anchors: matchAll works on a clone of linkRegex that starts at the
\* lastIndex the exec loop has left in it
numsInAnchorsAll(sentence, lastIndex) == NumbersOfAnchors(LinkMatchesFrom(sentence, lastIndex))

\* numsInSentence.filter(n => !anchorSet.has(norm(n)))
Unlinked(numsInSentence, anchorNums) ==
    SelectSeq(numsInSentence,
              LAMBDA n : ~\E k \in 1..Len(anchorNums) : norm(anchorNums[k]) = norm(n))

Features(numsInThisAnchor, numsInSentence, anchorNums) ==
    [anchorHasNumber |-> Len(numsInThisAnchor) > 0,
     sentenceHasNumber |-> Len(numsInSentence) > 0,
     unlinkedNumbers |-> Unlinked(numsInSentence, anchorNums),
     numbersInAnchorsAll |-> anchorNums,
     anchorNumbers |-> numsInThisAnchor,
     sentenceNumbers |-> numsInSentence]

NewLink(m, context, sentence) ==
    [text |-> m.text,
     url |-> m.url,
     context |-> context,
     sentence |-> sentence,
     features |-> Features(_extractNumberTokens(m.text),
                           _extractNumberTokens(AnchorsInlined(sentence, 0)),
                           numsInAnchorsAll(sentence, m.lastIndex)),
     isCitation |-> FALSE,
     status |-> "pending"]

\* the body of the exec loop for one match
LinkOf(markdown, m) ==
    NewLink(m, getContext(markdown, m.index, m.lastIndex - m.index),
               getSentence(markdown, m.index, m.lastIndex - m.index))

LinksOf(markdown, matches) == [k \in 1..Len(matches) |-> LinkOf(markdown, matches[k])]

\* LinkExtractor.extract
extract(markdown) == LinksOf(markdown, LinkMatchesFrom(markdown, 0))

\* allLinks.filter(link => !seen.has(link.url) ...): the first link of every url
FirstOfUrl_Last(allLinks) ==
    SelectSeq([k \in 1..Len(allLinks) |-> [pos |-> k, link |-> allLinks[k]]],
              LAMBDA e : ~\E j \in (e.pos + 1)..Len(allLinks) : allLinks[j].url = e.link.url)

FirstOfUrl(allLinks) ==
    SelectSeq([k \in 1..Len(allLinks) |-> [pos |-> k, link |-> allLinks[k]]],
              LAMBDA e : ~\E j \in 1..(e.pos - 1) : allLinks[j].url = e.link.url)

Kept(entries) == [k \in 1..Len(entries) |-> entries[k].link]

\* LinkExtractor.extractUnique
extractUnique(markdown) == Kept(FirstOfUrl(extract(markdown)))

\* ------------------------------------------------------------------------
\* LinkExtractor: classification
\* ------------------------------------------------------------------------
SomeIn(words, s) == \E w \in words : includes(s, w)

HasDigit(s) == \E i \in 1..Len(s) : IsDigit(s[i])

\* _plausibleSource: statWords
plausibleStatWords ==
    { <<"i", "n", "c", "r", "e", "a", "s", "e">>,
      <<"d", "e", "c", "r", "e", "a", "s", "e">>,
      <<"p", "e", "r", "c", "e", "n", "t">>,
      <<"p", "e", "r", "c", "e", "n", "t", "a", "g", "e">>,
      <<"s", "t", "a", "t", "i", "s", "t", "i", "c", "s">>,
      <<"r", "e", "p", "o", "r", "t">>,
      <<"s", "t", "u", "d", "y">>,
      <<"r", "e", "s", "e", "a", "r", "c", "h">>,
      <<"s", "u", "r", "v", "e", "y">>,
      <<"d", "a", "t", "a">> }

\* _plausibleSource: urlHints
plausibleUrlHints ==
    { <<"s", "t", "a", "t", "s">>,
      <<"s", "t", "a", "t", "i", "s", "t", "i", "c", "s">>,
      <<"/", "r", "e", "s", "e", "a", "r", "c", "h">>,
      <<"/", "s", "t", "u", "d", "y">>,
      <<"/", "r", "e", "p", "o", "r", "t">>,
      <<"w", "h", "i", "t", "e", "p", "a", "p", "e", "r">>,
      <<".", "p", "d", "f">>,
      <<"/", "p", "r", "e", "s", "s">> }

\* LinkExtractor._plausibleSource
_plausibleSource(linkText, url) ==
    SomeIn(plausibleStatWords, toLowerCase(linkText)) \/ SomeIn(plausibleUrlHints, toLowerCase(url))

\* isCitationHeuristic: verbs
verbs ==
    { <<"a", "c", "c", "o", "r", "d", "i", "n", "g", " ", "t", "o">>,
      <<"a", "n", "n", "o", "u", "n", "c", "e", "d">>,
      <<"r", "e", "p", "o", "r", "t", "e", "d">>,
      <<"s", "t", "a", "t", "e", "d">>,
      <<"s", "a", "y", "s">>,
      <<"s", "a", "i", "d">>,
      <<"f", "o", "u", "n", "d", " ", "t", "h", "a", "t">>,
      <<"f", "i", "n", "d", "s">>,
      <<"s", "h", "o", "w", "s">>,
      <<"s", "t", "u", "d", "y">>,
      <<"r", "e", "s", "e", "a", "r", "c", "h">>,
      <<"s", "u", "r", "v", "e", "y">>,
      <<"t", "r", "i", "a", "l">>,
      <<"r", "e", "p", "o", "r", "t">>,
      <<"p", "u", "b", "l", "i", "s", "h", "e", "d">>,
      <<"p", "r", "e", "s", "s", " ", "r", "e", "l", "e", "a", "s", "e">>,
      <<"r", "e", "v", "e", "a", "l", "e", "d">> }

\* isCitationHeuristic: statTerms
statTerms ==
    { <<"i", "n", "c", "r", "e", "a", "s", "e">>,
      <<"d", "e", "c", "r", "e", "a", "s", "e">>,
      <<"p", "e", "r", "c", "e", "n", "t">>,
      <<"p", "e", "r", "c", "e", "n", "t", "a", "g", "e">>,
      <<"s", "t", "a", "t", "i", "s", "t", "i", "c">>,
      <<"s", "t", "a", "t", "i", "s", "t", "i", "c", "s">>,
      <<"f", "i", "g", "u", "r", "e">>,
      <<"d", "a", "t", "a">>,
      <<"e", "s", "t", "i", "m", "a", "t", "e", "s">>,
      <<"e", "s", "t", "i", "m", "a", "t", "e">> }

\* isCitationHeuristic: urlHints
urlHints ==
    { <<"/", "s", "t", "a", "t", "s">>,
      <<"s", "t", "a", "t", "s", "-">>,
      <<"s", "t", "a", "t", "i", "s", "t", "i", "c", "s">>,
      <<"/", "r", "e", "s", "e", "a", "r", "c", "h">>,
      <<"/", "s", "t", "u", "d", "y">>,
      <<"/", "r", "e", "p", "o", "r", "t">>,
      <<"w", "h", "i", "t", "e", "p", "a", "p", "e", "r">>,
      <<".", "p", "d", "f">>,
      <<"/", "p", "r", "e", "s", "s">> }

\* numRe.test(s) || s.includes('%') || s.includes(' percent')
HasNumberIn(s) == HasDigit(s) \/ includes(s, <<"%">>) \/ includes(s, <<" ", "p", "e", "r", "c", "e", "n", "t">>)

\* the three return statements of isCitationHeuristic, on lower-cased strings
HeuristicOn(c, t, u) ==
    \/ HasNumberIn(t)
    \/ SomeIn(verbs, c) /\ (HasNumberIn(c) \/ SomeIn(statTerms, c) \/ SomeIn(statTerms, t))
    \/ (HasNumberIn(c) \/ SomeIn(statTerms, t)) /\ SomeIn(urlHints, u)

isCitationHeuristic_NumberForUrl(context, linkText, url) ==
    \/ HasNumberIn(toLowerCase(linkText))
    \/ /\ SomeIn(verbs, toLowerCase(context))
       /\ \/ HasNumberIn(toLowerCase(context))
          \/ SomeIn(statTerms, toLowerCase(context))
          \/ SomeIn(statTerms, toLowerCase(linkText))
    \/ HasNumberIn(toLowerCase(context)) /\ SomeIn(urlHints, toLowerCase(url))

\* LinkExtractor.isCitationHeuristic
isCitationHeuristic(context, linkText, url) ==
    HeuristicOn(toLowerCase(context), toLowerCase(linkText), toLowerCase(url))

\* LinkExtractor.isCitationHeuristicLink
isCitationHeuristicLink(link) ==
    \/ link.features.anchorHasNumber
    \/ Len(link.features.unlinkedNumbers) > 0 /\ _plausibleSource(link.text, link.url)
    \/ isCitationHeuristic(link.context, link.text, link.url)

\* _strongCitationSignal: hasStatWord
strongStatWords ==
    { <<"i", "n", "c", "r", "e", "a", "s", "e">>,
      <<"d", "e", "c", "r", "e", "a", "s", "e">>,
      <<"p", "e", "r", "c", "e", "n", "t">>,
      <<"p", "e", "r", "c", "e", "n", "t", "a", "g", "e">>,
      <<"s", "t", "a", "t", "i", "s", "t", "i", "c">>,
      <<"s", "t", "a", "t", "i", "s", "t", "i", "c", "s">>,
      <<"s", "t", "u", "d", "y">>,
      <<"r", "e", "s", "e", "a", "r", "c", "h">>,
      <<"s", "u", "r", "v", "e", "y">>,
      <<"r", "e", "p", "o", "r", "t">> }

\* _strongCitationSignal: urlStat
strongUrlWords ==
    { <<"s", "t", "a", "t", "s">>,
      <<"s", "t", "a", "t", "i", "s", "t", "i", "c">>,
      <<"r", "e", "s", "e", "a", "r", "c", "h">>,
      <<"s", "t", "u", "d", "y">>,
      <<"r", "e", "p", "o", "r", "t">>,
      <<"w", "h", "i", "t", "e", "p", "a", "p", "e", "r">>,
      <<"p", "r", "e", "s", "s">>,
      <<"p", "d", "f">> }

\* /(\d{1,3}(?:\.\d+)?)/.test(t) || t.includes('%')
HasNumeral(t) == HasDigit(t) \/ includes(t, <<"%">>)

\* LinkExtractor._strongCitationSignal
_strongCitationSignal(linkText, context, url) ==
    \/ HasNumeral(toLowerCase(linkText))
    \/ SomeIn(strongStatWords, toLowerCase(linkText)) /\ SomeIn(strongUrlWords, toLowerCase(url))

\* _strongGenericSignal: genericPhrases
genericPhrases ==
    { <<"h", "o", "m", "e", "p", "a", "g", "e">>,
      <<"h", "o", "m", "e">>,
      <<"l", "e", "a", "r", "n", " ", "m", "o", "r", "e">>,
      <<"c", "l", "i", "c", "k", " ", "h", "e", "r", "e">>,
      <<"r", "e", "a", "d", " ", "m", "o", "r", "e">>,
      <<"a", "b", "o", "u", "t", " ", "u", "s">>,
      <<"c", "o", "n", "t", "a", "c", "t">>,
      <<"a", "b", "m", " ", "s", "t", "r", "a", "t", "e", "g", "i", "e", "s">>,
      <<"w", "h", "a", "t", " ", "i", "s">>,
      <<"g", "u", "i", "d", "e">>,
      <<"o", "v", "e", "r", "v", "i", "e", "w">> }

GenericOn_IgnoreNumeral(t) == SomeIn(genericPhrases, t)

GenericOn(t) == ~HasNumeral(t) /\ SomeIn(genericPhrases, t)

\* LinkExtractor._strongGenericSignal
_strongGenericSignal(linkText, context, url) == GenericOn(trim(toLowerCase(linkText)))

\* const strong = ... in refineWithHeuristics
StrongSignal(link) ==
    \/ _strongCitationSignal(link.text, link.context, link.url)
    \/ link.features.anchorHasNumber
    \/ Len(link.features.unlinkedNumbers) > 0

Promoted_RulesOneAndTwo(link) ==
    IF ~link.isCitation
          /\ \/ HasNumeral(toLowerCase(link.text))
             \/ link.features.anchorHasNumber
             \/ Len(link.features.unlinkedNumbers) > 0 /\ _plausibleSource(link.text, link.url)
    THEN [link EXCEPT !.isCitation = TRUE]
    ELSE link

\* the first if of refineWithHeuristics
Promoted(link) ==
    IF ~link.isCitation /\ (StrongSignal(link) \/ isCitationHeuristicLink(link))
    THEN [link EXCEPT !.isCitation = TRUE]
    ELSE link

\* the second if of refineWithHeuristics
Demoted(link) ==
    IF link.isCitation /\ _strongGenericSignal(link.text, link.context, link.url)
          /\ ~link.features.anchorHasNumber
    THEN [link EXCEPT !.isCitation = FALSE]
    ELSE link

DemotedOnEntryLabel(before, link) ==
    IF before.isCitation /\ _strongGenericSignal(link.text, link.context, link.url)
          /\ ~link.features.anchorHasNumber
    THEN [link EXCEPT !.isCitation = FALSE]
    ELSE link

refineWithHeuristics_DemoteOnEntryLabel(ls) ==
    [k \in 1..Len(ls) |-> DemotedOnEntryLabel(ls[k], Promoted(ls[k]))]

refineWithHeuristics_DemoteOnly(ls) == [k \in 1..Len(ls) |-> Demoted(ls[k])]

\* LinkExtractor.refineWithHeuristics
refineWithHeuristics(ls) == [k \in 1..Len(ls) |-> Demoted(Promoted(ls[k]))]

fallbackClassification_KeepLabels(ls) ==
    [k \in 1..Len(ls) |->
        [ls[k] EXCEPT !.isCitation = ls[k].isCitation \/ isCitationHeuristicLink(ls[k])]]

\* LinkExtractor.fallbackClassification
fallbackClassification(ls) ==
    [k \in 1..Len(ls) |-> [ls[k] EXCEPT !.isCitation = isCitationHeuristicLink(ls[k])]]

\* what the classification request comes to
ClassifierAnswer(items) == [kind |-> "object", status |-> 200, items |-> items]

ClassifierFailure(kind, status) == [kind |-> kind, status |-> status, items |-> <<>>]

Label(index, isCitation) == [index |-> index, isCitation |-> isCitation, isNull |-> FALSE]

NullItem == [index |-> -1, isCitation |-> FALSE, isNull |-> TRUE]

\* classificationsArray.forEach(item => ...): the last item naming a link wins
LabelsFor(items, k) == {j \in 1..Len(items) : items[j].index = k - 1}

Labelled(link, items, hits) ==
    IF hits = {} THEN link ELSE [link EXCEPT !.isCitation = items[MaxOf(hits)].isCitation]

ApplyClassifications(ls, items) ==
    [k \in 1..Len(ls) |-> Labelled(ls[k], items, LabelsFor(items, k))]

\* reading item.index of a null item throws: the items before it are applied
NullItems(items) == {j \in 1..Len(items) : items[j].isNull}

BeforeThrow(items, nulls) == SubSeq(items, 1, MinOf(nulls) - 1)

\* the response never comes, is not ok, or its content is no JSON object
\* with a non-empty classification array
NoClassification(answer) == answer.kind # "object" \/ Len(answer.items) = 0

MergeAndRefine_RefineAlways(ls, answer) ==
    IF NoClassification(answer)
    THEN refineWithHeuristics(fallbackClassification(ls))
    ELSE IF NullItems(answer.items) # {}
    THEN refineWithHeuristics(fallbackClassification(ls))
    ELSE refineWithHeuristics(ApplyClassifications(ls, answer.items))

\* the try block once the request has settled: the fallback on a response
\* that is not ok, on an empty classification array and in the catch; else
\* the merge and the override pass
MergeAndRefine(ls, answer) ==
    IF NoClassification(answer)
    THEN fallbackClassification(ls)
    ELSE IF NullItems(answer.items) # {}
    THEN fallbackClassification(
            ApplyClassifications(ls, BeforeThrow(answer.items, NullItems(answer.items))))
    ELSE refineWithHeuristics(ApplyClassifications(ls, answer.items))

\* the array as it stands when the override pass starts, <<>> when it never runs
MergedLabels(ls, answer) ==
    IF NoClassification(answer) \/ NullItems(answer.items) # {}
    THEN <<>>
    ELSE ApplyClassifications(ls, answer.items)

\* ------------------------------------------------------------------------
\* Inputs: links, and the world they point to
\* ------------------------------------------------------------------------
\* what the target of a link does when the proxy requests it
OkTarget(text, redirected) ==
    [kind |-> "ok", code |-> 200, text |-> text, links |-> 2, redirected |-> redirected]

StatusTarget(code) ==
    [kind |-> "status", code |-> code, text |-> <<>>, links |-> 0, redirected |-> FALSE]

FailingTarget(kind) ==
    [kind |-> kind, code |-> 0, text |-> <<>>, links |-> 0, redirected |-> FALSE]

\* what the chat-completion provider answers
LlmAnswer(verdict, exactQuote) ==
    [kind |-> "object", status |-> 200, content |-> "", verdict |-> verdict, exactQuote |-> exactQuote]

LlmFailure(kind, status, content) ==
    [kind |-> kind, status |-> status, content |-> content, verdict |-> FALSE, exactQuote |-> JNull]

Contexts ==
    { <<>>,
      <<"a">>,
      <<"a", " ", "7", "9", "%">>,
      <<"1", "9", "7", "9">>,
      <<"7", ".", "9">> }

QuoteStrings ==
    { <<"a", " ", "7", "9", "%">>,
      <<"a", " ", " ", "7", "9", " ", "%">>,
      <<"A", " ", "7", "9">>,
      <<"1", "9", "7", "9">>,
      <<"7", "9", "0">>,
      <<"a", " ", "7", "0", "%">>,
      <<"d", "7", "9">>,
      <<"7", "9", "d">>,
      <<"a", "\n", "7", "9">>,
      <<"7", "a", "9">>,
      <<"7", ".", "9">>,
      <<"9">>,
      <<"a">> }

Quotes ==
    {JNull, JNum, JStr(<<>>), JStr(<<" ">>)} \cup {JStr(q) : q \in QuoteStrings}

\* the visible text of a page that carries the sentence q
PageWith(q) == <<"A", "\n", " ">> \o q \o <<" ", "a">>

Pages ==
    { <<>>, <<"a", " ", "7", "9", "%", " ", "a">> } \cup {PageWith(q) : q \in QuoteStrings}

DefaultContext == <<"a", " ", "7", "9", "%">>

DefaultQuote == JStr(<<"a", " ", "7", "9", "%">>)

DefaultPage == <<"A", " ", "a", " ", "7", "9", "%", " ", "a">>

Targets ==
    { FailingTarget("badurl"), FailingTarget("unreachable"),
      StatusTarget(404), StatusTarget(403), StatusTarget(500),
      OkTarget(DefaultPage, FALSE), OkTarget(DefaultPage, TRUE), OkTarget(<<>>, FALSE) }

LlmOutcomes ==
    { LlmFailure("reject", 0, ""), LlmFailure("badbody", 200, ""),
      LlmFailure("status", 401, ""), LlmFailure("status", 404, ""),
      LlmFailure("status", 429, ""), LlmFailure("status", 500, ""),
      LlmFailure("unparsable", 200, ""), LlmFailure("unparsable", 200, "Sorry, I cannot help"),
      LlmFailure("null", 200, "null"),
      LlmAnswer(TRUE, DefaultQuote), LlmAnswer(FALSE, JNull), LlmAnswer(TRUE, JNull) }

\* a link as extraction and classification leave it
MakeLink(url, isCitation, context) ==
    [url |-> url, text |-> "anchor", context |-> context, isCitation |-> isCitation,
     status |-> "pending"]

\* how the two proxy requests of a link and its LLM request turn out;
\* probe / content = "rejected" when the request does not reach the proxy
MakeWorld(target, probe, content, llm) ==
    [target |-> target, probe |-> probe, content |-> content, llm |-> llm]

\* a single link, every network outcome
NetworkCases ==
    { <<MakeLink(1, c, DefaultContext), MakeWorld(t, p, s, l)>> :
        c \in BOOLEAN, t \in Targets, p \in {"served", "rejected"},
        s \in {"served", "rejected"}, l \in LlmOutcomes }

\* a single citation whose page is fetched, every context, page and model answer
GroundingCases ==
    { <<MakeLink(1, TRUE, c), MakeWorld(OkTarget(p, FALSE), "served", "served", LlmAnswer(v, q))>> :
        c \in Contexts, p \in Pages, v \in BOOLEAN, q \in Quotes }

\* the kinds of link a longer list is made of
Catalog ==
    << <<MakeLink(0, FALSE, DefaultContext),
         MakeWorld(OkTarget(DefaultPage, FALSE), "served", "served", LlmAnswer(TRUE, JNull))>>,
       <<MakeLink(0, TRUE, DefaultContext),
         MakeWorld(StatusTarget(404), "served", "served", LlmAnswer(TRUE, DefaultQuote))>>,
       <<MakeLink(0, TRUE, DefaultContext),
         MakeWorld(OkTarget(DefaultPage, TRUE), "served", "served", LlmAnswer(TRUE, DefaultQuote))>>,
       <<MakeLink(0, FALSE, DefaultContext),
         MakeWorld(StatusTarget(500), "served", "served", LlmAnswer(TRUE, JNull))>>,
       <<MakeLink(0, TRUE, DefaultContext),
         MakeWorld(OkTarget(DefaultPage, FALSE), "served", "served", LlmFailure("status", 429, ""))>>,
       <<MakeLink(0, FALSE, DefaultContext),
         MakeWorld(StatusTarget(403), "served", "served", LlmFailure("reject", 0, ""))>>,
       <<MakeLink(0, FALSE, DefaultContext),
         MakeWorld(FailingTarget("unreachable"), "served", "served", LlmAnswer(TRUE, JNull))>>,
       <<MakeLink(0, TRUE, DefaultContext),
         MakeWorld(StatusTarget(404), "rejected", "rejected", LlmAnswer(TRUE, DefaultQuote))>> >>

CatalogAt(i) == Catalog[((i - 1) % Len(Catalog)) + 1]

\* link lists come out of extractUnique: the urls are distinct
PatternLinks(n) == [i \in 1..n |-> [CatalogAt(i)[1] EXCEPT !.url = i]]

PatternWorld(n) == [i \in 1..n |-> CatalogAt(i)[2]]

\* lengths of the longer lists: none, one more than a fetch batch, the maximum
PatternSizes == {0, fetchBatchSize + 1, MaxLinks}

ApiKey == "sk-1"

KeyStates == { <<ApiKey, ApiKey>>, <<NoKey, ApiKey>>, <<NoKey, NoKey>> }

\* the inputs of the runs whose termination is checked: the same kinds of
\* link and of network outcome, on a page of one character
ShortPage == <<"a">>

ShortTargets ==
    { FailingTarget("badurl"), FailingTarget("unreachable"),
      StatusTarget(404), StatusTarget(500),
      OkTarget(ShortPage, FALSE), OkTarget(ShortPage, TRUE), OkTarget(<<>>, FALSE) }

ShortLlmOutcomes ==
    { LlmFailure("reject", 0, ""), LlmFailure("badbody", 200, ""),
      LlmFailure("status", 401, ""), LlmFailure("status", 500, ""),
      LlmFailure("unparsable", 200, ""), LlmFailure("null", 200, "null"),
      LlmAnswer(TRUE, JNum), LlmAnswer(FALSE, JNull), LlmAnswer(TRUE, JNull) }

ShortCases ==
    { <<MakeLink(1, c, ShortPage), MakeWorld(t, p, s, l)>> :
        c \in BOOLEAN, t \in ShortTargets, p \in {"served", "rejected"},
        s \in {"served", "rejected"}, l \in ShortLlmOutcomes }

ShortCatalog ==
    << <<MakeLink(0, FALSE, ShortPage),
         MakeWorld(OkTarget(ShortPage, FALSE), "served", "served", LlmAnswer(TRUE, JNull))>>,
       <<MakeLink(0, TRUE, ShortPage),
         MakeWorld(StatusTarget(404), "served", "served", LlmAnswer(TRUE, JNull))>>,
       <<MakeLink(0, TRUE, ShortPage),
         MakeWorld(OkTarget(ShortPage, TRUE), "served", "served", LlmAnswer(TRUE, JNull))>>,
       <<MakeLink(0, FALSE, ShortPage),
         MakeWorld(StatusTarget(500), "served", "served", LlmAnswer(TRUE, JNull))>>,
       <<MakeLink(0, TRUE, ShortPage),
         MakeWorld(OkTarget(ShortPage, FALSE), "served", "served", LlmFailure("status", 429, ""))>>,
       <<MakeLink(0, FALSE, ShortPage),
         MakeWorld(StatusTarget(403), "served", "served", LlmFailure("reject", 0, ""))>>,
       <<MakeLink(0, FALSE, ShortPage),
         MakeWorld(FailingTarget("unreachable"), "served", "served", LlmAnswer(TRUE, JNull))>>,
       <<MakeLink(0, TRUE, ShortPage),
         MakeWorld(StatusTarget(404), "rejected", "rejected", LlmAnswer(TRUE, JNull))>> >>

ShortAt(i) == ShortCatalog[((i - 1) % Len(ShortCatalog)) + 1]

ShortLinks(n) == [i \in 1..n |-> [ShortAt(i)[1] EXCEPT !.url = i]]

ShortWorld(n) == [i \in 1..n |-> ShortAt(i)[2]]

\* ------------------------------------------------------------------------
\* Inputs: the text processText works on, and the classification answer
\* ------------------------------------------------------------------------
Repeat(c, n) == [i \in 1..n |-> c]

\* no link at all: Nothing to see here.
DocNoLinks ==
    << "N", "o", "t", "h", "i", "n", "g", " ", "t", "o", " ", "s", "e", "e", " ", "h", "e", "r",
       "e", "." >>

\* the same url twice: [a](http://x.com) and [b](http://x.com)
DocDuplicate ==
    << "[", "a", "]", "(", "h", "t", "t", "p", ":", "/", "/", "x", ".", "c", "o", "m", ")", " ",
       "a", "n", "d", " ", "[", "b", "]", "(", "h", "t", "t", "p", ":", "/", "/", "x", ".", "c",
       "o", "m", ")" >>

\* a number after the link of its sentence: According to a [study](https://example.com/study) 81% of users agreed.
DocStudy ==
    << "A", "c", "c", "o", "r", "d", "i", "n", "g", " ", "t", "o", " ", "a", " ", "[", "s", "t",
       "u", "d", "y", "]", "(", "h", "t", "t", "p", "s", ":", "/", "/", "e", "x", "a", "m", "p",
       "l", "e", ".", "c", "o", "m", "/", "s", "t", "u", "d", "y", ")", " ", "8", "1", "%", " ",
       "o", "f", " ", "u", "s", "e", "r", "s", " ", "a", "g", "r", "e", "e", "d", "." >>

\* generic anchors, with and without numerals: [Learn more about the 81% increase](u1) or [Learn More](u2) or [ABM strategies](u3) or [read more %](u4)
DocGeneric ==
    << "[", "L", "e", "a", "r", "n", " ", "m", "o", "r", "e", " ", "a", "b", "o", "u", "t", " ",
       "t", "h", "e", " ", "8", "1", "%", " ", "i", "n", "c", "r", "e", "a", "s", "e", "]", "(",
       "u", "1", ")", " ", "o", "r", " ", "[", "L", "e", "a", "r", "n", " ", "M", "o", "r", "e",
       "]", "(", "u", "2", ")", " ", "o", "r", " ", "[", "A", "B", "M", " ", "s", "t", "r", "a",
       "t", "e", "g", "i", "e", "s", "]", "(", "u", "3", ")", " ", "o", "r", " ", "[", "r", "e",
       "a", "d", " ", "m", "o", "r", "e", " ", "%", "]", "(", "u", "4", ")" >>

\* a generic anchor that the heuristic takes for a citation: A survey reported 5% growth, [read more in the report](http://s.co/report) today
DocReport ==
    << "A", " ", "s", "u", "r", "v", "e", "y", " ", "r", "e", "p", "o", "r", "t", "e", "d", " ",
       "5", "%", " ", "g", "r", "o", "w", "t", "h", ",", " ", "[", "r", "e", "a", "d", " ", "m",
       "o", "r", "e", " ", "i", "n", " ", "t", "h", "e", " ", "r", "e", "p", "o", "r", "t", "]",
       "(", "h", "t", "t", "p", ":", "/", "/", "s", ".", "c", "o", "/", "r", "e", "p", "o", "r",
       "t", ")", " ", "t", "o", "d", "a", "y" >>

\* two paragraphs: Intro text. / See [home](h) now! Sales rose 2,000 units [data report](s/stats) and [x](h)
DocParagraphs ==
    << "I", "n", "t", "r", "o", " ", "t", "e", "x", "t", ".", "\n", "\n", "S", "e", "e", " ", "[",
       "h", "o", "m", "e", "]", "(", "h", ")", " ", "n", "o", "w", "!", " ", "S", "a", "l", "e",
       "s", " ", "r", "o", "s", "e", " ", "2", ",", "0", "0", "0", " ", "u", "n", "i", "t", "s",
       " ", "[", "d", "a", "t", "a", " ", "r", "e", "p", "o", "r", "t", "]", "(", "s", "/", "s",
       "t", "a", "t", "s", ")", " ", "a", "n", "d", " ", "[", "x", "]", "(", "h", ")" >>

\* links whose sentence has no number of its own, or a number and an anchor that names no source:
\* Profits rose 5% last year. The company said so in [its note](u5). Costs fell 3% [here](u6)
DocNote ==
    << "P", "r", "o", "f", "i", "t", "s", " ", "r", "o", "s", "e", " ", "5", "%", " ", "l", "a",
       "s", "t", " ", "y", "e", "a", "r", ".", " ", "T", "h", "e", " ", "c", "o", "m", "p", "a",
       "n", "y", " ", "s", "a", "i", "d", " ", "s", "o", " ", "i", "n", " ", "[", "i", "t", "s",
       " ", "n", "o", "t", "e", "]", "(", "u", "5", ")", ".", " ", "C", "o", "s", "t", "s", " ",
       "f", "e", "l", "l", " ", "3", "%", " ", "[", "h", "e", "r", "e", "]", "(", "u", "6", ")" >>

\* a statistics term in the anchor and a statistics address, no number and no attribution verb;
\* in a second paragraph the word percent in an anchor:
\* See the [data figures](s/stats) page / Or [ten percent](u7)
DocFigures ==
    << "S", "e", "e", " ", "t", "h", "e", " ", "[", "d", "a", "t", "a", " ", "f", "i", "g", "u",
       "r", "e", "s", "]", "(", "s", "/", "s", "t", "a", "t", "s", ")", " ", "p", "a", "g", "e",
       "\n", "\n", "O", "r", " ", "[", "t", "e", "n", " ", "p", "e", "r", "c", "e", "n", "t",
       "]", "(", "u", "7", ")" >>

\* a link whose position lies behind the sentences counted from 0: .......[a](u)
DocDotsFirst == Repeat(".", 7) \o <<"[", "a", "]", "(", "u", ")">>

\* one sentence longer than the context cap
DocLongSentence == <<"[", "a", "]", "(", "u", ")", " ">> \o Repeat("x", ContextCap)

\* a paragraph that starts with a long run of terminators: the positions the
\* loop of getContext counts start at the first sentence, not at the paragraph
DocLeadingDots ==
    Repeat(".", NeighbourCap + 7) \o <<"[">> \o Repeat("x", NeighbourCap)
        \o <<"]", "(", "u", ")", ".", " ", " ", "\n", "\n", "z">>

Documents ==
    { DocNoLinks, DocDuplicate, DocStudy, DocGeneric, DocReport, DocParagraphs,
      DocLongSentence, DocLeadingDots, DocNote, DocFigures, DocDotsFirst,
      <<>>, <<" ", "\n">> }

AllLabelled(isCitation) == [k \in 1..4 |-> Label(k - 1, isCitation)]

ClassifierOutcomes ==
    { ClassifierFailure("reject", 0), ClassifierFailure("badbody", 200),
      ClassifierFailure("status", 401), ClassifierFailure("status", 500),
      ClassifierFailure("unparsable", 200), ClassifierFailure("null", 200),
      ClassifierAnswer(<<>>),
      ClassifierAnswer(AllLabelled(TRUE)),
      ClassifierAnswer(AllLabelled(FALSE)),
      ClassifierAnswer(<<Label(0, TRUE)>>),
      ClassifierAnswer(<<Label(1, TRUE), Label(7, TRUE), Label(1, FALSE)>>),
      ClassifierAnswer(<<Label(0, TRUE), Label(1, TRUE), NullItem, Label(2, TRUE)>>) }

\* ------------------------------------------------------------------------
\* Pages Functions: the fetch-url proxy and the LLM proxy as request handlers
\* ------------------------------------------------------------------------
\* new Response(body, {status}) accepts these statuses only with a null body
NullBodyStatus(status) == status \in {101, 204, 205, 304}

\* the Response constructor throws: a RangeError for a status outside
\* 200..599, a TypeError for a body with a null body status
ResponseThrows(status, hasBody) ==
    status < 200 \/ status > 599 \/ (hasBody /\ NullBodyStatus(status))

AnyOrigin == "*"

NoHeader == "none"

\* what a handler returns: the Response, and the requests it sent upstream
FunctionResponse(status, allowOrigin, contentType, json, fetches) ==
    [status |-> status, allowOrigin |-> allowOrigin, contentType |-> contentType,
     json |-> json, fetches |-> fetches]

NullBody == [shape |-> "null"]

ErrorBody(message) == [shape |-> "error", error |-> message]

IsAlpha(c) == LowerChar(c) # c \/ LowerChar(c) \in
    {"a", "b", "c", "d", "e", "f", "g", "h", "i", "j", "k", "l", "m",
     "n", "o", "p", "q", "r", "s", "t", "u", "v", "w", "x", "y", "z"}

\* the scheme of a URL string: the characters before the first colon, when
\* they start with a letter and go on with letters, digits, '+', '-', '.'
SchemeEnd(s) == indexOf(s, <<":">>, 0)

HasScheme(s) ==
    /\ SchemeEnd(s) > 0
    /\ IsAlpha(s[1])
    /\ \A i \in 2..SchemeEnd(s) : IsAlpha(s[i]) \/ IsDigit(s[i]) \/ s[i] \in {"+", "-", "."}

\* parsedUrl.protocol: the scheme in lower case with its colon
Protocol(s) == toLowerCase(SubSeq(s, 1, SchemeEnd(s) + 1))

HttpProtocols == {<<"h", "t", "t", "p", ":">>, <<"h", "t", "t", "p", "s", ":">>}

\* what follows the scheme of an http(s) URL, without the slashes before the host
RECURSIVE SkipSlashes(_)
SkipSlashes(s) ==
    IF s # <<>> /\ Head(s) \in {"/", "\\"} THEN SkipSlashes(Tail(s)) ELSE s

\* an http(s) URL needs a host: a character other than '/', '?', '#' after the slashes
HasHost(s) ==
    /\ SkipSlashes(SubSeq(s, SchemeEnd(s) + 2, Len(s))) # <<>>
    /\ Head(SkipSlashes(SubSeq(s, SchemeEnd(s) + 2, Len(s)))) \notin {"/", "?", "#"}

\* new URL(targetUrl) does not throw; the parser trims the string first
UrlParses(targetUrl) ==
    /\ HasScheme(trim(targetUrl))
    /\ Protocol(trim(targetUrl)) \in HttpProtocols => HasHost(trim(targetUrl))

\* the try block that validates targetUrl runs through
ValidTarget(targetUrl) ==
    /\ UrlParses(targetUrl)
    /\ Protocol(trim(targetUrl)) \in HttpProtocols

\* the response to the CORS preflight of the fetch-url proxy
FetchUrlPreflight ==
    FunctionResponse(200, AnyOrigin, NoHeader, NullBody, 0)

\* a response built by new Response(JSON.stringify(json), {status, headers}) inside
\* the try block: when the constructor throws, the catch block answers 500
JsonOrCaught(status, json, fetches) ==
    IF ResponseThrows(status, TRUE)
    THEN FunctionResponse(500, AnyOrigin, "application/json",
                          ErrorBody(<<"Response with null body status cannot have body">>), fetches)
    ELSE FunctionResponse(status, AnyOrigin, "application/json", json, fetches)

\* onRequest of the fetch-url proxy: request is the method and the url
\* parameter of the query, target is what the fetch of the target comes to
fetchUrl_onRequest(request, target) ==
    IF request.method = "OPTIONS" THEN FetchUrlPreflight
    ELSE IF ~request.param.present \/ request.param.value = <<>>
    THEN JsonOrCaught(400, ErrorBody(<<"Missing url parameter">>), 0)
    ELSE IF ~ValidTarget(request.param.value)
    THEN JsonOrCaught(400, ErrorBody(<<"Invalid URL">>), 0)
    ELSE IF target.kind = "unreachable"
    THEN JsonOrCaught(500, ErrorBody(<<"fetch failed">>), 1)
    ELSE IF target.code < 200 \/ target.code > 299
    THEN JsonOrCaught(target.code,
             [shape |-> "upstream",
              error |-> <<"Failed to fetch: ", NumStr(target.code), " ", ReasonPhrase(target.code)>>,
              status |-> target.code], 1)
    ELSE JsonOrCaught(200,
             [shape |-> "page",
              text |-> extractText(target.text),
              links |-> Min(target.links, LinksCap),
              status |-> [url |-> IF target.redirected THEN OtherUrl ELSE request.param.value,
                          http_code |-> target.code]], 1)

DefaultModel == "deepseek/deepseek-chat-v3.1:free"

HasMessages_AnyArray(body) ==
    /\ body.kind = "object"
    /\ body.messages.kind = "array"

\* Array.isArray(messages) && messages.length > 0, on body?.messages
HasMessages(body) ==
    /\ body.kind = "object"
    /\ body.messages.kind = "array"
    /\ body.messages.length > 0

\* { model, messages } and the temperature when the body has one
ChatRequest(body) ==
    [model |-> IF body.model = "" THEN DefaultModel ELSE body.model,
     messages |-> body.messages.length,
     hasTemperature |-> body.temperature # Undefined]

NoChatRequest == [model |-> "", messages |-> 0, hasTemperature |-> FALSE]

\* a response of the LLM proxy, with what it forwarded to the provider
ChatProxyResponse(status, allowOrigin, json, fetches, forwarded) ==
    [status |-> status, allowOrigin |-> allowOrigin, contentType |-> "application/json",
     json |-> json, fetches |-> fetches, forwarded |-> forwarded]

\* onRequestPost: the body is parsed, checked and forwarded to the provider,
\* whose status and text are handed back; every exception is answered with 500
onRequestPost(request, env, upstream) ==
    IF request.body.kind = "invalid"
    THEN ChatProxyResponse(500, NoHeader, ErrorBody(<<"Unexpected token">>), 0, NoChatRequest)
    ELSE IF ~HasMessages(request.body)
    THEN ChatProxyResponse(400, NoHeader, ErrorBody(<<"Missing messages array">>), 0, NoChatRequest)
    ELSE IF env.OPENROUTER_API_KEY = NoKey
    THEN ChatProxyResponse(500, NoHeader, ErrorBody(<<"OPENROUTER_API_KEY not configured">>), 0,
                       NoChatRequest)
    ELSE IF upstream.kind = "reject"
    THEN ChatProxyResponse(500, NoHeader, ErrorBody(<<"fetch failed">>), 1, ChatRequest(request.body))
    ELSE IF ResponseThrows(upstream.status, TRUE)
    THEN ChatProxyResponse(500, NoHeader,
                       ErrorBody(<<"Response with null body status cannot have body">>), 1,
                       ChatRequest(request.body))
    ELSE ChatProxyResponse(upstream.status, NoHeader, [shape |-> "raw", text |-> upstream.text], 1,
                       ChatRequest(request.body))

\* onRequestOptions: new Response(null, { status: 204 })
onRequestOptions ==
    [status |-> 204, allowOrigin |-> NoHeader, contentType |-> NoHeader, json |-> NullBody,
     fetches |-> 0, forwarded |-> NoChatRequest]

\* onRequestGet: the health check
onRequestGet ==
    ChatProxyResponse(200, NoHeader, [shape |-> "health", ok |-> TRUE, route |-> "/api/openrouter"],
                  0, NoChatRequest)

\* the headers of functions/api/openrouter.js: every response allows any origin
WithCors(response) == [response EXCEPT !.allowOrigin = AnyOrigin]

\* onRequest of functions/api/openrouter.js, the handler of every method
openrouter_onRequest(request, env, upstream) ==
    IF request.method = "OPTIONS" THEN WithCors(onRequestOptions)
    ELSE IF request.method = "GET" THEN WithCors(onRequestGet)
    ELSE IF request.method = "POST" THEN WithCors(onRequestPost(request, env, upstream))
    ELSE ChatProxyResponse(405, AnyOrigin, ErrorBody(<<"Method not allowed">>), 0, NoChatRequest)

\* ------------------------------------------------------------------------
\* State
\* ------------------------------------------------------------------------
VARIABLES
    links,          \* the array handed to factCheckLinks
    world,          \* per link: its target, the fate of its requests, the LLM answer
    openaiApiKey,   \* AgentManager.openaiApiKey
    storedKey,      \* localStorage factchecker_openai_key
    phase,          \* where factCheckLinks is: "idle", "fetch", "verify", "done"
    batchStart,     \* the loop variable i of the running loop
    fetchOp,        \* per link, fetchLinkData: "none", "status", "content", "done"
    fetchData,      \* per link, the data object of its fetchLinkData call
    allFetchedData, \* the array the fetch loop pushes to
    verifyOp,       \* per link, verifyLink: "none", "llm", "tick", "done"
    verifyResult,   \* per link, the result object of its verifyLink call
    results,        \* the pre-sized result array
    updates,        \* per link, the payloads onUpdate received for its index
    requests,       \* per link, requests sent: probe, content, llm
    batches,        \* the batches started so far: kind and size
    inputText,      \* the value of the text area
    keyInput,       \* the value of the key input
    linkArray,      \* the array extractUnique returned, which classifyLinks labels
    merged,         \* that array as it stood when the override pass started
    currentLinks,   \* App.currentLinks
    classifier,     \* what the classification request comes to
    classifyOp,     \* classifyLinks: "none", "llm", "tick", "done"
    classifyRequests, \* classification requests sent
    classifyCall,   \* the classifyLinks call: its key argument, the key of its request
    processBtnDisabled, \* the process button
    verifyBtnDisabled,  \* the verify button
    alerts,         \* the alerts shown, in order
    table,          \* the verification table in the page
    fnRequest,      \* the request a Pages Function receives
    fnWorld,        \* its environment and what its own fetch comes to
    fnResponse      \* the response it returns

\* what factCheckLinks works on
pipelineVars ==
    <<links, world, openaiApiKey, storedKey, phase, batchStart, fetchOp, fetchData,
      allFetchedData, verifyOp, verifyResult, results, updates, requests, batches>>

\* what processText and classifyLinks work on
extractorVars ==
    <<inputText, linkArray, merged, currentLinks, classifier, classifyOp, classifyRequests,
      classifyCall,
      processBtnDisabled>>

\* the controls of the page
appVars == <<keyInput, verifyBtnDisabled, alerts, table>>

\* a request to a Pages Function and its response
functionVars == <<fnRequest, fnWorld, fnResponse>>

vars == <<pipelineVars, extractorVars, appVars, functionVars>>

N == Len(links)

Indices == 1..N

\* an empty slot of new Array(n)
EmptySlot ==
    [originalUrl |-> NullUrl, isCitation |-> FALSE, status |-> "empty",
     analysis |-> <<>>, exactQuote |-> JNull, redirectUrl |-> NullUrl]

TerminalStatuses == {"verified", "invalid", "inaccurate"}

\* links.slice(i, i + size), as 1-based indices
BatchIndices(start, size, n) == (start + 1)..Min(start + size, n)

FetchBatch == BatchIndices(batchStart, fetchBatchSize, N)

VerifyBatch == BatchIndices(batchStart, verifyBatchSize, N)

ProxyResponse(idx, which) ==
    IF world[idx][which] = "rejected"
    THEN RejectedResponse
    ELSE onRequest(links[idx].url, world[idx].target)

Update(url, status) == [originalUrl |-> url, status |-> status]

fetchingUpdate_AsChecking(idx) == Update(links[idx].url, "checking")

\* onUpdate(idx, { originalUrl: links[idx].url, status: 'fetching', analysis: '' })
fetchingUpdate(idx) == Update(links[idx].url, "fetching")

\* onUpdate(idx, { originalUrl: links[idx].url, status: 'checking', analysis: '' })
checkingUpdate(idx) == Update(links[idx].url, "checking")

PromiseAll_Any(op, batch) == \E idx \in batch : op[idx] = "done"

\* await Promise.all(promises): every call of the batch has resolved
PromiseAll(op, batch) == \A idx \in batch : op[idx] = "done"

BatchRecord(kind, batch) == [kind |-> kind, size |-> Cardinality(batch)]

InitState(ls, w, keys) ==
    /\ links = ls
    /\ world = w
    /\ openaiApiKey = keys[1]
    /\ storedKey = keys[2]
    /\ phase = "idle"
    /\ batchStart = 0
    /\ fetchOp = [idx \in 1..Len(ls) |-> "none"]
    /\ fetchData = [idx \in 1..Len(ls) |-> NewFetchData]
    /\ allFetchedData = <<>>
    /\ verifyOp = [idx \in 1..Len(ls) |-> "none"]
    /\ verifyResult = [idx \in 1..Len(ls) |-> EmptySlot]
    /\ results = <<>>
    /\ updates = [idx \in 1..Len(ls) |-> <<>>]
    /\ requests = [idx \in 1..Len(ls) |-> [probe |-> 0, content |-> 0, llm |-> 0]]
    /\ batches = <<>>

\* no request to a Pages Function is followed
NoFunctionRequest == [endpoint |-> "none"]

NoFunctionResponse == [status |-> 0]

InitFunctions(request, env) ==
    /\ fnRequest = request
    /\ fnWorld = env
    /\ fnResponse = NoFunctionResponse

\* UIRenderer.renderLinksTable(links): a table with one row per link, showing
\* its URL and reading Ready; delivered counts, per index, the updates that
\* went to earlier tables
renderLinksTable(ls, delivered) ==
    [urls |-> [k \in 1..Len(ls) |-> ls[k].url],
     delivered |-> [idx \in 1..Len(delivered) |-> Len(delivered[idx])]]

\* UIRenderer.updateResult(index, result) finds tr[data-index=index] in the
\* table now in the page: the updates applied to that row since it was rendered
RowUpdates(idx) ==
    IF idx > Len(table.urls) THEN <<>>
    ELSE SubSeq(updates[idx], table.delivered[idx] + 1, Len(updates[idx]))

NoClassifyCall == [openaiApiKey |-> NoKey, authorization |-> NoKey]

\* the controls of the page as loaded: no text processed, buttons enabled
InitControls(text, key, answer) ==
    /\ inputText = text
    /\ keyInput = key
    /\ linkArray = <<>>
    /\ merged = <<>>
    /\ currentLinks = <<>>
    /\ classifier = answer
    /\ classifyOp = "none"
    /\ classifyRequests = 0
    /\ classifyCall = NoClassifyCall
    /\ processBtnDisabled = FALSE
    /\ verifyBtnDisabled = FALSE
    /\ alerts = <<>>
    /\ table = renderLinksTable(links, updates)

\* the page as loaded
InitPage(text, key, answer) ==
    /\ InitControls(text, key, answer)
    /\ InitFunctions(NoFunctionRequest, NoFunctionRequest)

\* AgentManager.factCheckLinks called on a link list
Init ==
    /\ \/ \E c \in NetworkCases, keys \in KeyStates : InitState(<<c[1]>>, <<c[2]>>, keys)
       \/ \E c \in GroundingCases : InitState(<<c[1]>>, <<c[2]>>, <<ApiKey, ApiKey>>)
       \/ \E n \in PatternSizes : InitState(PatternLinks(n), PatternWorld(n), <<ApiKey, ApiKey>>)
    /\ InitPage(<<>>, ApiKey, ClassifierAnswer(<<>>))

\* ------------------------------------------------------------------------
\* factCheckLinks
\* ------------------------------------------------------------------------
\* one iteration of the fetch loop up to its await: a fetching update and a
\* fetchLinkData call (which sends the status probe) for every link of the batch
StartFetchBatchWith(start, batch) ==
    /\ phase' = "fetch"
    /\ batchStart' = start
    /\ batches' = Append(batches, BatchRecord("fetch", batch))
    /\ updates' = [idx \in Indices |->
           IF idx \in batch THEN Append(updates[idx], fetchingUpdate(idx)) ELSE updates[idx]]
    /\ fetchOp' = [idx \in Indices |-> IF idx \in batch THEN "status" ELSE fetchOp[idx]]
    /\ fetchData' = [idx \in Indices |->
           IF idx \in batch THEN [NewFetchData EXCEPT !.link = links[idx].url]
           ELSE fetchData[idx]]
    /\ requests' = [idx \in Indices |->
           IF idx \in batch THEN [requests[idx] EXCEPT !.probe = @ + 1] ELSE requests[idx]]

StartFetchBatch(start) == StartFetchBatchWith(start, BatchIndices(start, fetchBatchSize, N))

VerifyWait_LostContinuation(link, data, key) ==
    IF IsHttpError(data) THEN "done"
    ELSE IF CallsLlm(link, data) /\ _chatCompletionSends(key) THEN "llm"
    ELSE "none"

\* where a verifyLink call stands when the loop body reaches its await
VerifyWait(link, data, key) ==
    IF IsHttpError(data) THEN "done"
    ELSE IF CallsLlm(link, data) /\ _chatCompletionSends(key) THEN "llm"
    ELSE "tick"

\* one iteration of the verify loop up to its await: a checking update for
\* every link of the batch, then the verifyLink calls in index order. A call
\* for a link with an HTTP error has no await and delivers its update at once;
\* the others wait for the LLM response ("llm") or resume in a microtask ("tick").
StartVerifyBatchWith(start, fetched, batch, key) ==
    /\ phase' = "verify"
    /\ batchStart' = start
    /\ batches' = Append(batches, BatchRecord("verify", batch))
    /\ verifyResult' = [idx \in Indices |->
           IF idx \in batch
           THEN verifyLink(links[idx], fetched[idx], key, world[idx].llm)
           ELSE verifyResult[idx]]
    /\ verifyOp' = [idx \in Indices |->
           IF idx \in batch THEN VerifyWait(links[idx], fetched[idx], key) ELSE verifyOp[idx]]
    /\ updates' = [idx \in Indices |->
           IF idx \notin batch THEN updates[idx]
           ELSE IF verifyOp'[idx] = "done"
           THEN updates[idx] \o <<checkingUpdate(idx),
                                   Update(verifyResult'[idx].originalUrl, verifyResult'[idx].status)>>
           ELSE Append(updates[idx], checkingUpdate(idx))]
    /\ requests' = [idx \in Indices |->
           IF idx \in batch /\ verifyOp'[idx] = "llm"
           THEN [requests[idx] EXCEPT !.llm = @ + 1]
           ELSE requests[idx]]

StartVerifyBatch(start, fetched) ==
    StartVerifyBatchWith(start, fetched, BatchIndices(start, verifyBatchSize, N),
                         EffectiveKey(openaiApiKey, storedKey))

\* the call: results = new Array(links.length), then the first fetch batch;
\* with no links both loops are skipped and the empty array is returned
factCheckLinks ==
    /\ phase = "idle"
    /\ results' = [idx \in Indices |-> EmptySlot]
    /\ IF N = 0
       THEN /\ phase' = "done"
            /\ UNCHANGED <<batchStart, updates, fetchOp, fetchData, requests, batches>>
       ELSE StartFetchBatch(0)
    /\ UNCHANGED <<links, world, openaiApiKey, storedKey, allFetchedData, verifyOp, verifyResult>>
    /\ UNCHANGED <<extractorVars, appVars, functionVars>>

\* a continuation waits in the microtask queue: it runs before any response
\* is delivered
TickPending == \E idx \in Indices : verifyOp[idx] = "tick"

\* lines 112-117: the data object once the probe has answered
ProbeData(data, httpStatus) ==
    IF ~httpStatus.ok
    THEN [data EXCEPT !.hasStatus = TRUE, !.httpStatus = httpStatus,
                      !.error = <<NumStr(httpStatus.status), ": ", httpStatus.statusText>>]
    ELSE [data EXCEPT !.hasStatus = TRUE, !.httpStatus = httpStatus]

\* fetchLinkData resumes after await checkHttpStatus
fetchLinkData_status(idx) ==
    /\ phase = "fetch"
    /\ fetchOp[idx] = "status"
    /\ ~TickPending
    /\ fetchData' = [fetchData EXCEPT ![idx] =
          ProbeData(@, checkHttpStatus(links[idx].url, ProxyResponse(idx, "probe")))]
    /\ IF ~fetchData'[idx].httpStatus.ok
       THEN /\ fetchOp' = [fetchOp EXCEPT ![idx] = "done"]
            /\ UNCHANGED requests
       ELSE /\ fetchOp' = [fetchOp EXCEPT ![idx] = "content"]
            /\ requests' = [requests EXCEPT ![idx].content = @ + 1]
    /\ UNCHANGED <<links, world, openaiApiKey, storedKey, phase, batchStart, allFetchedData,
                   verifyOp, verifyResult, results, updates, batches>>
    /\ UNCHANGED <<extractorVars, appVars, functionVars>>

\* lines 120-125: the data object once the content request has answered
ContentData(data, r) ==
    IF r.threw
    THEN [data EXCEPT !.error = <<"Content unavailable">>]
    ELSE [data EXCEPT !.pageContent = r.content]

\* fetchLinkData resumes after await fetchPageContent, or in its catch
fetchLinkData_content(idx) ==
    /\ phase = "fetch"
    /\ fetchOp[idx] = "content"
    /\ ~TickPending
    /\ fetchData' = [fetchData EXCEPT ![idx] =
          ContentData(@, fetchPageContent(links[idx].url, ProxyResponse(idx, "content")))]
    /\ fetchOp' = [fetchOp EXCEPT ![idx] = "done"]
    /\ UNCHANGED <<links, world, openaiApiKey, storedKey, phase, batchStart, allFetchedData,
                   verifyOp, verifyResult, results, updates, requests, batches>>
    /\ UNCHANGED <<extractorVars, appVars, functionVars>>

PushBatch_LastCallFirst(all, data, start, count) ==
    all \o [k \in 1..count |-> data[start + count + 1 - k]]

\* allFetchedData.push(...fetchedBatch): the values of Promise.all, in the
\* order of the calls
PushBatch(all, data, start, count) == all \o [k \in 1..count |-> data[start + k]]

\* await Promise.all(fetchPromises) resolves: push the batch, then the next
\* fetch batch or, after the last one, the first verify batch
FetchBatchDone ==
    /\ phase = "fetch"
    /\ PromiseAll(fetchOp, FetchBatch)
    /\ allFetchedData' = PushBatch(allFetchedData, fetchData, batchStart, Cardinality(FetchBatch))
    /\ IF batchStart + fetchBatchSize < N
       THEN /\ StartFetchBatch(batchStart + fetchBatchSize)
            /\ UNCHANGED <<verifyOp, verifyResult>>
       ELSE /\ StartVerifyBatch(0, allFetchedData')
            /\ UNCHANGED <<fetchOp, fetchData>>
    /\ UNCHANGED <<links, world, openaiApiKey, storedKey, results>>
    /\ UNCHANGED <<extractorVars, appVars, functionVars>>

\* verifyLink resumes after its await, runs to its end: onUpdate(index, result)
verifyLink_resume(idx) ==
    /\ phase = "verify"
    /\ verifyOp[idx] \in {"llm", "tick"}
    /\ verifyOp[idx] = "llm" => ~TickPending
    /\ verifyOp' = [verifyOp EXCEPT ![idx] = "done"]
    /\ updates' = [updates EXCEPT ![idx] =
          Append(@, Update(verifyResult[idx].originalUrl, verifyResult[idx].status))]
    /\ UNCHANGED <<links, world, openaiApiKey, storedKey, phase, batchStart, fetchOp, fetchData,
                   allFetchedData, verifyResult, results, requests, batches>>
    /\ UNCHANGED <<extractorVars, appVars, functionVars>>

\* await Promise.all(verifyPromises) resolves: store the batch, then the next
\* verify batch or the return
VerifyBatchDone ==
    /\ phase = "verify"
    /\ PromiseAll(verifyOp, VerifyBatch)
    /\ results' = [idx \in Indices |-> IF idx \in VerifyBatch THEN verifyResult[idx] ELSE results[idx]]
    /\ IF batchStart + verifyBatchSize < N
       THEN StartVerifyBatch(batchStart + verifyBatchSize, allFetchedData)
       ELSE /\ phase' = "done"
            /\ UNCHANGED <<batchStart, verifyOp, verifyResult, updates, requests, batches>>
    /\ UNCHANGED <<links, world, openaiApiKey, storedKey, fetchOp, fetchData, allFetchedData>>
    /\ UNCHANGED <<extractorVars, appVars, functionVars>>

Next ==
    \/ factCheckLinks
    \/ \E idx \in Indices : fetchLinkData_status(idx)
    \/ \E idx \in Indices : fetchLinkData_content(idx)
    \/ FetchBatchDone
    \/ \E idx \in Indices : verifyLink_resume(idx)
    \/ VerifyBatchDone

Spec == Init /\ [][Next]_vars

\* every pending response arrives and every continuation runs; the call of
\* factCheckLinks itself is not forced
Fairness ==
    /\ WF_vars(\E idx \in Indices : fetchLinkData_status(idx))
    /\ WF_vars(\E idx \in Indices : fetchLinkData_content(idx))
    /\ WF_vars(FetchBatchDone)
    /\ WF_vars(\E idx \in Indices : verifyLink_resume(idx))
    /\ WF_vars(VerifyBatchDone)

\* runs over one link with every network outcome, over a list of two verify
\* batches, and over a list of two fetch batches
InitFair ==
    /\ \/ \E c \in ShortCases, keys \in KeyStates : InitState(<<c[1]>>, <<c[2]>>, keys)
       \/ \E keys \in KeyStates :
             InitState(ShortLinks(verifyBatchSize + 1), ShortWorld(verifyBatchSize + 1), keys)
       \/ InitState(ShortLinks(fetchBatchSize + 1), ShortWorld(fetchBatchSize + 1),
                    <<ApiKey, ApiKey>>)
    /\ InitPage(<<>>, ApiKey, ClassifierAnswer(<<>>))

FairSpec == InitFair /\ [][Next]_vars /\ Fairness

\* ------------------------------------------------------------------------
\* App: processText
\* ------------------------------------------------------------------------
KeyMissing_Never(key) == FALSE

\* if (!openaiKey), on the value of the key input
KeyMissing(key) == key = NoKey

NoTextAlert == "Please paste some text first"

NoKeyAlert == "Please add your OpenAI API Key in the settings"

NoLinksAlert == "No links to verify"

\* where classifyLinks stands when processText reaches its await: with no
\* links it returns at once, without a key _chatCompletion throws, and either
\* way processText resumes in a microtask ("tick"); else the request is out
ClassifyWait(ls, key) ==
    IF Len(ls) > 0 /\ _chatCompletionSends(key) THEN "llm" ELSE "tick"

\* what the await of _chatCompletion comes to
Settled(op, answer) == IF op = "tick" THEN ClassifierFailure("nokey", 0) ELSE answer

\* LinkExtractor.classifyLinks, from its call to its return value
classifyLinks(ls, answer) == IF Len(ls) = 0 THEN ls ELSE MergeAndRefine(ls, answer)

\* classifyLinks(links, openaiKey, ...) as called by processText: the key
\* argument, and the Authorization key of the request if one is sent
ClassifyCall(openaiKey, op, apiKey) ==
    [openaiApiKey |-> openaiKey, authorization |-> IF op = "llm" THEN apiKey ELSE NoKey]

\* the click on the process button, up to the await of classifyLinks
processTextWith(text) ==
    IF text = <<>>
    THEN /\ alerts' = Append(alerts, NoTextAlert)
         /\ UNCHANGED <<linkArray, classifyOp, classifyRequests, classifyCall,
                         processBtnDisabled>>
    ELSE IF KeyMissing(keyInput)
    THEN /\ alerts' = Append(alerts, NoKeyAlert)
         /\ UNCHANGED <<linkArray, classifyOp, classifyRequests, classifyCall,
                         processBtnDisabled>>
    ELSE /\ processBtnDisabled' = TRUE
         /\ linkArray' = extractUnique(text)
         /\ classifyOp' = ClassifyWait(linkArray', EffectiveKey(openaiApiKey, storedKey))
         /\ classifyRequests' = IF classifyOp' = "llm" THEN classifyRequests + 1
                                                        ELSE classifyRequests
         /\ classifyCall' = ClassifyCall(keyInput, classifyOp', EffectiveKey(openaiApiKey, storedKey))
         /\ UNCHANGED alerts

\* one click is followed: the button is enabled and nothing was processed yet
processText ==
    /\ ~processBtnDisabled
    /\ classifyOp = "none"
    /\ alerts = <<>>
    /\ processTextWith(trim(inputText))
    /\ UNCHANGED <<inputText, merged, currentLinks, classifier, keyInput, verifyBtnDisabled, table>>
    /\ UNCHANGED <<pipelineVars, functionVars>>

\* the classification request settles: classifyLinks runs to its return,
\* processText stores the array and enables the button again
processText_resume ==
    /\ classifyOp \in {"llm", "tick"}
    /\ linkArray' = classifyLinks(linkArray, Settled(classifyOp, classifier))
    /\ merged' = MergedLabels(linkArray, Settled(classifyOp, classifier))
    /\ currentLinks' = linkArray'
    /\ classifyOp' = "done"
    /\ table' = renderLinksTable(currentLinks', updates)
    /\ processBtnDisabled' = FALSE
    /\ UNCHANGED <<inputText, classifier, classifyRequests, classifyCall, keyInput,
                   verifyBtnDisabled, alerts>>
    /\ UNCHANGED <<pipelineVars, functionVars>>

NextExtract == processText \/ processText_resume

\* the page with a text in the text area; storedKey is empty when
\* localStorage is not available
InitExtract ==
    \E text \in Documents, key \in {NoKey, ApiKey}, keys \in KeyStates,
       answer \in ClassifierOutcomes :
        /\ InitState(<<>>, <<>>, keys)
        /\ InitPage(text, key, answer)

SpecExtract == InitExtract /\ [][NextExtract]_vars

\* ------------------------------------------------------------------------
\* App: startFactChecking
\* ------------------------------------------------------------------------
\* the click on the verify button, up to the await of factCheckLinks
startFactChecking ==
    /\ ~verifyBtnDisabled
    /\ phase = "idle"
    /\ alerts = <<>>
    /\ IF KeyMissing(keyInput)
       THEN /\ alerts' = Append(alerts, NoKeyAlert)
            /\ UNCHANGED <<openaiApiKey, verifyBtnDisabled, phase, batchStart, results, updates,
                           fetchOp, fetchData, requests, batches>>
       ELSE IF N = 0
       THEN /\ alerts' = Append(alerts, NoLinksAlert)
            /\ UNCHANGED <<openaiApiKey, verifyBtnDisabled, phase, batchStart, results, updates,
                           fetchOp, fetchData, requests, batches>>
       ELSE /\ openaiApiKey' = keyInput
            /\ verifyBtnDisabled' = TRUE
            /\ results' = [idx \in Indices |-> EmptySlot]
            /\ StartFetchBatch(0)
            /\ UNCHANGED alerts
    /\ UNCHANGED <<links, world, storedKey, allFetchedData, verifyOp, verifyResult, keyInput, table,
                   extractorVars, functionVars>>

\* factCheckLinks has returned: the finally block enables the button again
startFactChecking_finally ==
    /\ phase = "done"
    /\ verifyBtnDisabled
    /\ verifyBtnDisabled' = FALSE
    /\ UNCHANGED <<pipelineVars, extractorVars, keyInput, alerts, table, functionVars>>

NextApp ==
    \/ startFactChecking
    \/ \E idx \in Indices : fetchLinkData_status(idx)
    \/ \E idx \in Indices : fetchLinkData_content(idx)
    \/ FetchBatchDone
    \/ \E idx \in Indices : verifyLink_resume(idx)
    \/ VerifyBatchDone
    \/ startFactChecking_finally

\* the page with a classified link list, with and without a key in the input
InitApp ==
    /\ \/ \E c \in NetworkCases, keys \in KeyStates : InitState(<<c[1]>>, <<c[2]>>, keys)
       \/ \E n \in {0, fetchBatchSize + 1}, keys \in KeyStates :
             InitState(PatternLinks(n), PatternWorld(n), keys)
    /\ \E key \in {NoKey, ApiKey} : InitPage(<<>>, key, ClassifierAnswer(<<>>))

SpecApp == InitApp /\ [][NextApp]_vars

\* ------------------------------------------------------------------------
\* App: processText while a factCheckLinks run is in flight
\* ------------------------------------------------------------------------
\* the target of every link answers with a page; each proxy request can fail
ServedWorlds ==
    { MakeWorld(OkTarget(DefaultPage, FALSE), p, c, l) :
        p \in {"served", "rejected"}, c \in {"served", "rejected"},
        l \in {LlmAnswer(TRUE, DefaultQuote), LlmFailure("status", 429, "")} }

ProcessedTexts == {DocStudy, DocDuplicate}

PastedTexts == {DocStudy, DocGeneric, DocNoLinks}

\* the page after processText has shown the links of a text: the table holds
\* App.currentLinks, the text area holds the text pasted next
InitShown(shown, w, text, answer) ==
    /\ InitState(shown, [k \in 1..Len(shown) |-> w], <<NoKey, ApiKey>>)
    /\ InitFunctions(NoFunctionRequest, NoFunctionRequest)
    /\ inputText = text
    /\ keyInput = ApiKey
    /\ linkArray = shown
    /\ merged = <<>>
    /\ currentLinks = shown
    /\ classifier = answer
    /\ classifyOp = "none"
    /\ classifyRequests = 0
    /\ classifyCall = NoClassifyCall
    /\ processBtnDisabled = FALSE
    /\ verifyBtnDisabled = FALSE
    /\ alerts = <<>>
    /\ table = renderLinksTable(shown, [k \in 1..Len(shown) |-> <<>>])

InitRender ==
    \E shown \in ProcessedTexts, w \in ServedWorlds, text \in PastedTexts,
       answer \in ClassifierOutcomes :
        InitShown(fallbackClassification(extractUnique(shown)), w, text, answer)

\* the click on the verify button while App.currentLinks is the array shown
\* at the start (the run works on App.currentLinks)
startFactChecking_shown ==
    /\ currentLinks = links
    /\ startFactChecking

\* both buttons are live: the process button is not disabled by a run
NextRender ==
    \/ startFactChecking_shown
    \/ \E idx \in Indices : fetchLinkData_status(idx)
    \/ \E idx \in Indices : fetchLinkData_content(idx)
    \/ FetchBatchDone
    \/ \E idx \in Indices : verifyLink_resume(idx)
    \/ VerifyBatchDone
    \/ startFactChecking_finally
    \/ processText
    \/ processText_resume

SpecRender == InitRender /\ [][NextRender]_vars

\* ------------------------------------------------------------------------
\* App: the key input, edited between clicks
\* ------------------------------------------------------------------------
OtherKey == "sk-2"

KeyValues == {NoKey, ApiKey, OtherKey}

\* the change event of the key input: saveApiKeys(false) stores the value, or
\* removes the stored key when the input is empty; a continuation in the
\* microtask queue runs before the event
editKey(value) ==
    /\ classifyOp # "tick"
    /\ ~TickPending
    /\ keyInput # value
    /\ keyInput' = value
    /\ storedKey' = value
    /\ UNCHANGED <<links, world, openaiApiKey, phase, batchStart, fetchOp, fetchData,
                   allFetchedData, verifyOp, verifyResult, results, updates, requests, batches>>
    /\ UNCHANGED <<extractorVars, verifyBtnDisabled, alerts, table, functionVars>>

\* the page with a link list shown and a text pasted; init() has loaded the
\* stored key into the input
InitKeys ==
    /\ \E text \in {DocStudy, DocNoLinks}, answer \in ClassifierOutcomes :
          InitShown(fallbackClassification(extractUnique(DocDuplicate)),
                    MakeWorld(OkTarget(DefaultPage, FALSE), "served", "served",
                              LlmAnswer(TRUE, DefaultQuote)),
                    text, answer)

NextKeys == NextRender \/ \E value \in KeyValues : editKey(value)

SpecKeys == InitKeys /\ [][NextKeys]_vars

\* ------------------------------------------------------------------------
\* Pages Functions: requests and handlers
\* ------------------------------------------------------------------------
Methods == {"GET", "POST", "OPTIONS", "PUT", "DELETE"}

\* values of the url parameter: no scheme, a scheme other than http(s), http(s)
\* in either case and with surrounding whitespace, http without a host
TargetUrls ==
    { <<"e", "x", "a", "m", "p", "l", "e", ".", "c", "o", "m", "/", "a">>,
      <<"f", "t", "p", ":", "/", "/", "e", "x", "a", "m", "p", "l", "e", ".", "c", "o", "m", "/", "a">>,
      <<"h", "t", "t", "p", ":", "/", "/", "e", "x", "a", "m", "p", "l", "e", ".", "c", "o", "m", "/", "a">>,
      <<"h", "t", "t", "p", "s", ":", "/", "/", "e", "x", "a", "m", "p", "l", "e", ".", "c", "o", "m", "/", "a">>,
      <<"H", "T", "T", "P", "S", ":", "/", "/", "E", "x", "a", "m", "p", "l", "e", ".", "c", "o", "m">>,
      <<" ", "h", "t", "t", "p", "s", ":", "/", "/", "e", "x", "a", "m", "p", "l", "e", ".", "c", "o", "m", "/", "a", "\n">>,
      <<"h", "t", "t", "p", ":", "/", "/">>,
      <<"m", "a", "i", "l", "t", "o", ":", "a", "@", "e", "x", "a", "m", "p", "l", "e", ".", "c", "o", "m">> }

\* url.searchParams.get('url'): null, '' or a value
UrlParams ==
    {[present |-> FALSE, value |-> <<>>], [present |-> TRUE, value |-> <<>>]}
        \cup {[present |-> TRUE, value |-> u] : u \in TargetUrls}

FetchUrlRequests ==
    {[endpoint |-> "fetch-url", method |-> m, param |-> q] : m \in Methods, q \in UrlParams}

\* what the fetch of the target comes to: it throws, or the target answers
FunctionTargets ==
    { FailingTarget("unreachable"),
      StatusTarget(404), StatusTarget(403), StatusTarget(500), StatusTarget(503),
      StatusTarget(429), StatusTarget(304),
      OkTarget(DefaultPage, FALSE), OkTarget(DefaultPage, TRUE), OkTarget(<<>>, FALSE) }

\* request.json(): it throws, or the value is null or an object
ChatBody(kind, messages, model, temperature) ==
    [kind |-> kind, messages |-> messages, model |-> model, temperature |-> temperature]

\* body.messages: absent, a string, an array
MessageValues ==
    {[kind |-> "absent", length |-> 0], [kind |-> "string", length |-> 2],
     [kind |-> "array", length |-> 0], [kind |-> "array", length |-> 1],
     [kind |-> "array", length |-> 2]}

ChatBodies ==
    { ChatBody("invalid", [kind |-> "absent", length |-> 0], "", Undefined),
      ChatBody("null", [kind |-> "absent", length |-> 0], "", Undefined) }
        \cup { ChatBody("object", m, model, t) :
                 m \in MessageValues, model \in {"", "openai/gpt-4o-mini"}, t \in {Undefined, 0} }

ChatRequests(endpoint, methods) ==
    {[endpoint |-> endpoint, method |-> m, body |-> b] : m \in methods, b \in ChatBodies}

\* env.OPENROUTER_API_KEY is configured or not
Envs == {[OPENROUTER_API_KEY |-> NoKey], [OPENROUTER_API_KEY |-> "or-key"]}

\* what the fetch of the provider comes to
Upstreams ==
    {[kind |-> "reject", status |-> 0, text |-> ""]}
        \cup {[kind |-> "response", status |-> c, text |-> IF c = 200 THEN "{\"choices\":[]}" ELSE ""] :
                c \in {200, 204, 401, 429, 500}}

\* the methods functions/api/openrouter.js exported a handler for before
\* onRequest took every method
RoutedMethods == {"GET", "POST", "OPTIONS"}

\* the fetch-url proxy answers a request
FetchUrlFunction ==
    /\ fnRequest.endpoint = "fetch-url"
    /\ fnResponse = NoFunctionResponse
    /\ fnResponse' = fetchUrl_onRequest(fnRequest, fnWorld.target)
    /\ UNCHANGED <<fnRequest, fnWorld, pipelineVars, extractorVars, appVars>>

\* the LLM proxy answers a request
OpenRouterFunction ==
    /\ fnRequest.endpoint = "openrouter"
    /\ fnResponse = NoFunctionResponse
    /\ fnResponse' = openrouter_onRequest(fnRequest, fnWorld.env, fnWorld.upstream)
    /\ UNCHANGED <<fnRequest, fnWorld, pipelineVars, extractorVars, appVars>>

\* the LLM proxy with a handler per method answers a request
OpenRouterRoutes ==
    /\ fnRequest.endpoint = "openrouter-routes"
    /\ fnResponse = NoFunctionResponse
    /\ fnResponse' = CASE fnRequest.method = "POST" ->
                              onRequestPost(fnRequest, fnWorld.env, fnWorld.upstream)
                       [] fnRequest.method = "OPTIONS" -> onRequestOptions
                       [] fnRequest.method = "GET" -> onRequestGet
    /\ UNCHANGED <<fnRequest, fnWorld, pipelineVars, extractorVars, appVars>>

NextFunctions == FetchUrlFunction \/ OpenRouterFunction \/ OpenRouterRoutes

\* a request arrives at one of the functions
InitRequests ==
    /\ InitState(<<>>, <<>>, <<ApiKey, ApiKey>>)
    /\ InitControls(<<>>, ApiKey, ClassifierAnswer(<<>>))
    /\ \/ \E r \in FetchUrlRequests, t \in FunctionTargets :
             InitFunctions(r, [target |-> t])
       \/ \E r \in ChatRequests("openrouter", Methods), e \in Envs, u \in Upstreams :
             InitFunctions(r, [env |-> e, upstream |-> u])
       \/ \E r \in ChatRequests("openrouter-routes", RoutedMethods), e \in Envs, u \in Upstreams :
             InitFunctions(r, [env |-> e, upstream |-> u])

SpecFunctions == InitRequests /\ [][NextFunctions]_vars

\* ------------------------------------------------------------------------
\* AgentManager.checkHttpStatus on the answers a proxy can give
\* ------------------------------------------------------------------------
HttpCodes == {199, 200, 204, 301, 302, 399, 400, 401, 403, 404, 410, 429, 500, 503}

ProbedUrls == {1, 2}

\* a proxy answering 200 with status metadata ({ status: { url, http_code } })
MetadataAnswer(statusUrl, httpCode) ==
    JsonResponse(200,
        [shape |-> "page", text |-> <<>>, links |-> 0,
         status |-> [url |-> statusUrl, http_code |-> httpCode]])

\* what the probe request can come to: status metadata, the error bodies of
\* the fetch-url function, no response at all
ProbeAnswers ==
    {MetadataAnswer(u, c) : u \in ProbedUrls \cup {OtherUrl}, c \in HttpCodes}
        \cup {onRequest(1, t) : t \in Targets}
        \cup {RejectedResponse}

\* one call of checkHttpStatus runs to its return value
checkHttpStatus_call ==
    /\ fnRequest.endpoint = "checkHttpStatus"
    /\ fnResponse = NoFunctionResponse
    /\ fnResponse' = checkHttpStatus(fnRequest.url, fnWorld.response)
    /\ UNCHANGED <<fnRequest, fnWorld, pipelineVars, extractorVars, appVars>>

NextStatus == checkHttpStatus_call

InitStatus ==
    /\ InitState(<<>>, <<>>, <<ApiKey, ApiKey>>)
    /\ InitControls(<<>>, ApiKey, ClassifierAnswer(<<>>))
    /\ \E u \in ProbedUrls, r \in ProbeAnswers :
          InitFunctions([endpoint |-> "checkHttpStatus", url |-> u], [response |-> r])

SpecStatus == InitStatus /\ [][NextStatus]_vars

\* ------------------------------------------------------------------------
\* Properties
\* ------------------------------------------------------------------------
Done == phase = "done"

\* the statuses onUpdate received for index idx, in order
Statuses(idx) == [k \in 1..Len(updates[idx]) |-> updates[idx][k].status]

\* the terminal statuses delivered for idx so far
TerminalUpdates(idx) == {k \in 1..Len(updates[idx]) : updates[idx][k].status \in TerminalStatuses}

MarkedVerified(idx) == \E k \in 1..Len(updates[idx]) : updates[idx][k].status = "verified"

\* the model answered isCorrect = true
ModelSaidCorrect(idx) ==
    /\ requests[idx].llm > 0
    /\ world[idx].llm.kind = "object"
    /\ world[idx].llm.verdict

\* lower case, whitespace runs collapsed to one blank, surrounding blanks dropped
Normalized(str) == trim(CollapseWs(toLowerCase(str)))

\* the model's exactQuote is a non-empty string that occurs in the fetched page text
QuoteOnFetchedPage(idx) ==
    LET q == world[idx].llm.exactQuote
        text == fetchData[idx].pageContent.text
    IN /\ q.t = "str"
       /\ Len(q.s) > 0
       /\ fetchData[idx].pageContent.has
       /\ \E i \in 0..(Len(Normalized(text)) - Len(Normalized(q.s))) :
              SubSeq(Normalized(text), i + 1, i + Len(Normalized(q.s))) = Normalized(q.s)

\* C1: a citation is verified only if the model answered isCorrect = true and
\* returned a non-empty exactQuote that occurs, case-insensitively and with
\* whitespace collapsed, in the fetched page text; every other citation ends
\* inaccurate or invalid.
C1_VerifiedOnlyIfGrounded ==
    \A idx \in Indices :
        links[idx].isCitation =>
            /\ MarkedVerified(idx) => ModelSaidCorrect(idx) /\ QuoteOnFetchedPage(idx)
            /\ (Done /\ ~(ModelSaidCorrect(idx) /\ QuoteOnFetchedPage(idx)))
                  => results[idx].status \in {"inaccurate", "invalid"}

\* a run ended with a verified citation, and its quote is on the page
C1_Witness ==
    /\ Done
    /\ \E idx \in Indices :
          /\ links[idx].isCitation
          /\ results[idx].status = "verified"
          /\ QuoteOnFetchedPage(idx)

\* fig occurs in quote as a number of its own: no digit before it, no digit after it
StandaloneIn(quote, fig) ==
    \E i \in 1..Len(quote) :
        /\ i + Len(fig) - 1 <= Len(quote)
        /\ SubSeq(quote, i, i + Len(fig) - 1) = fig
        /\ (i = 1 \/ ~IsDigit(quote[i - 1]))
        /\ (i + Len(fig) > Len(quote) \/ ~IsDigit(quote[i + Len(fig)]))

\* C2: a citation whose context has numeric figures is verified only if one of
\* them stands in the model's exactQuote as a standalone number, not inside a
\* longer digit run.
C2_VerifiedOnlyWithStandaloneFigure ==
    \A idx \in Indices :
        (/\ links[idx].isCitation
         /\ MarkedVerified(idx)
         /\ Len(_extractFigures(links[idx].context)) > 0)
        => \E k \in 1..Len(_extractFigures(links[idx].context)) :
              StandaloneIn(OrEmpty(world[idx].llm.exactQuote),
                           _extractFigures(links[idx].context)[k])

IsPrefix(p, q) == Len(p) <= Len(q) /\ SubSeq(q, 1, Len(p)) = p

\* C3: the updates of a link arrive as fetching, checking, one terminal status:
\* three updates per link in a finished run, never an earlier phase after a later one.
C3_UpdateOrder ==
    \A idx \in Indices :
        /\ \E t \in TerminalStatuses : IsPrefix(Statuses(idx), <<"fetching", "checking", t>>)
        /\ Done => Len(updates[idx]) = 3

\* a run over several batches ended, every link with its three updates
C3_Witness ==
    /\ Done
    /\ N > fetchBatchSize
    /\ \A idx \in Indices : Len(updates[idx]) = 3 /\ Statuses(idx)[3] \in TerminalStatuses

\* C4: when factCheckLinks returns, the result array has one entry per link,
\* each with a terminal status, and each link reached exactly one terminal status.
C4_AllTerminalAtReturn ==
    Done =>
        /\ Len(results) = Len(links)
        /\ \A idx \in Indices :
              /\ results[idx].status \in TerminalStatuses
              /\ Cardinality(TerminalUpdates(idx)) = 1
              /\ updates[idx][Len(updates[idx])].status = results[idx].status

\* a run ended in which a verification threw and a link had an HTTP error
C4_Witness ==
    /\ Done
    /\ \E idx \in Indices : world[idx].llm.kind = "status" /\ requests[idx].llm > 0
    /\ \E idx \in Indices : results[idx].status = "invalid"

\* the LLM request of idx was sent and failed: rejected, non-success response,
\* or output that is not JSON
LlmFailed(idx) ==
    /\ requests[idx].llm > 0
    /\ world[idx].llm.kind \in {"reject", "badbody", "status", "unparsable"}

\* the pieces by which an analysis can carry the error of the failed request
ErrorPieces(idx) ==
    LET llm == world[idx].llm
    IN CASE llm.kind = "status" ->
               Range(AnalysisErrorMsg(llm.status)) \cup Range(RelevanceErrorMsg(llm.status))
         [] llm.kind = "unparsable" ->
               {"Unable to parse AI response", "Sorry, I cannot help"}
         [] OTHER -> Range(TransportFailure(ApiKey, llm))

\* C5: a failed verification of one link is mapped to inaccurate (citation) or
\* verified (regular link) with the error message in the analysis, and the run
\* still ends with a terminal status for every link.
C5_FailureMappedWithMessage ==
    Done =>
        \A idx \in Indices :
            /\ results[idx].status \in TerminalStatuses
            /\ LlmFailed(idx) =>
                  /\ results[idx].status = IF links[idx].isCitation THEN "inaccurate" ELSE "verified"
                  /\ Range(results[idx].analysis) \cap ErrorPieces(idx) # {}

FetchStarted(idx) == fetchOp[idx] # "none"

VerifyStarted(idx) == verifyOp[idx] # "none"

GroupOf(idx, size) == (idx - 1) \div size

\* the sizes of consecutive groups of n links: full groups, then the rest
RECURSIVE GroupSizes(_, _)
GroupSizes(n, size) ==
    IF n <= 0 THEN <<>>
    ELSE IF n <= size THEN <<n>>
    ELSE <<size>> \o GroupSizes(n - size, size)

BatchSizes(kind) ==
    LET sel == SelectSeq(batches, LAMBDA b : b.kind = kind)
    IN [k \in 1..Len(sel) |-> sel[k].size]

\* C6: fetching runs in consecutive groups of 10 and verifying in consecutive
\* groups of 5; nothing of a group starts before the previous group is complete,
\* and verifying starts only after the last fetch group is complete.
C6_BatchBarrier ==
    /\ \A idx, jdx \in Indices :
          /\ (GroupOf(idx, 10) < GroupOf(jdx, 10) /\ (FetchStarted(jdx) \/ updates[jdx] # <<>>))
                => fetchOp[idx] = "done"
          /\ (GroupOf(idx, 5) < GroupOf(jdx, 5) /\ (VerifyStarted(jdx) \/ Len(updates[jdx]) >= 2))
                => verifyOp[idx] = "done"
          /\ (VerifyStarted(jdx) \/ Len(updates[jdx]) >= 2) => fetchOp[idx] = "done"
    /\ IsPrefix(BatchSizes("fetch"), GroupSizes(N, 10))
    /\ IsPrefix(BatchSizes("verify"), GroupSizes(N, 5))
    /\ Done => /\ BatchSizes("fetch") = GroupSizes(N, 10)
               /\ BatchSizes("verify") = GroupSizes(N, 5)

\* a run over 23 links ended: groups of 10, 10, 3 and of 5, 5, 5, 5, 3
C6_Witness ==
    /\ Done
    /\ N = 23
    /\ BatchSizes("fetch") = <<10, 10, 3>>
    /\ BatchSizes("verify") = <<5, 5, 5, 5, 3>>

FetchOutstanding == {idx \in Indices : fetchOp[idx] \in {"status", "content"}}

VerifyOutstanding == {idx \in Indices : verifyOp[idx] \in {"llm", "tick"}}

\* C7: at most 10 fetches and at most 5 verifications are outstanding at any
\* moment, and no verification is outstanding while a fetch is.
C7_BoundedOutstanding ==
    /\ Cardinality(FetchOutstanding) <= 10
    /\ Cardinality(VerifyOutstanding) <= 5
    /\ FetchOutstanding = {} \/ VerifyOutstanding = {}

\* ten fetches are outstanding while further links wait for the next batch
C7_Witness ==
    /\ Cardinality(FetchOutstanding) = 10
    /\ \E idx \in Indices : fetchOp[idx] = "none"

\* the fetch phase recorded a status that is not ok for idx
RecordedHttpError(idx) ==
    /\ fetchOp[idx] = "done"
    /\ fetchData[idx].hasStatus
    /\ ~fetchData[idx].httpStatus.ok

\* C8: a link for which the fetch phase recorded an HTTP status outside
\* [200,400) ends invalid, citation or not; no content fetch and no LLM request
\* is sent for it, and the analysis cites the recorded failure.
C8_HttpErrorIsInvalid ==
    \A idx \in Indices :
        RecordedHttpError(idx) =>
            /\ ~(fetchData[idx].httpStatus.status >= 200 /\ fetchData[idx].httpStatus.status < 400)
            /\ requests[idx].content = 0
            /\ requests[idx].llm = 0
            /\ \A k \in TerminalUpdates(idx) : updates[idx][k].status = "invalid"
            /\ Done =>
                  /\ results[idx].status = "invalid"
                  /\ results[idx].analysis =
                        <<"Link returns ">> \o fetchData[idx].error
                            \o <<". The page does not exist or is not accessible.">>
                  /\ fetchData[idx].error # <<>>

\* a run ended with a citation and a regular link whose probes recorded an error
C8_Witness ==
    /\ Done
    /\ \E idx, jdx \in Indices :
          /\ links[idx].isCitation /\ RecordedHttpError(idx) /\ results[idx].status = "invalid"
          /\ ~links[jdx].isCitation /\ RecordedHttpError(jdx) /\ results[jdx].status = "invalid"

\* the target of idx answers 404 to the proxy, and the proxy was reached
Target404(idx) ==
    /\ world[idx].target.kind = "status"
    /\ world[idx].target.code = 404
    /\ world[idx].probe = "served"

\* C9: with the fetch-url proxy, a link whose target answers 404 ends invalid
\* with an analysis that mentions 404 and Not Found, citation or not.
C9_NotFoundIsReported ==
    Done =>
        \A idx \in Indices :
            Target404(idx) =>
                /\ results[idx].status = "invalid"
                /\ "404" \in Range(results[idx].analysis)
                /\ "Not Found" \in Range(results[idx].analysis)

\* C10: a regular link whose fetch recorded no HTTP error ends verified,
\* whatever the relevance check does.
C10_RegularLinkVerified ==
    \A idx \in Indices :
        (~links[idx].isCitation /\ fetchOp[idx] = "done" /\ ~RecordedHttpError(idx)) =>
            /\ \A k \in TerminalUpdates(idx) : updates[idx][k].status = "verified"
            /\ Done => results[idx].status = "verified"

\* a run ended with a verified regular link whose relevance request was rejected
C10_Witness ==
    /\ Done
    /\ \E idx \in Indices :
          /\ ~links[idx].isCitation
          /\ requests[idx].llm > 0
          /\ world[idx].llm.kind = "reject"
          /\ results[idx].status = "verified"

\* the target of idx is broken: it answers the proxy with an error status, or
\* the proxy cannot fetch it at all; the proxy itself is reached
BrokenTarget(idx) ==
    /\ world[idx].target.kind \in {"status", "unreachable"}
    /\ world[idx].probe = "served"
    /\ world[idx].content = "served"

\* C11: a regular link whose target is broken (error status, or not fetchable
\* by the proxy at all) is never marked verified and ends invalid.
C11_BrokenRegularLinkIsInvalid ==
    \A idx \in Indices :
        (~links[idx].isCitation /\ BrokenTarget(idx)) =>
            /\ ~MarkedVerified(idx)
            /\ Done => results[idx].status = "invalid"

\* the fetch phase recorded an ok status for idx but obtained no page content
ContentMissing(idx) ==
    /\ fetchOp[idx] = "done"
    /\ fetchData[idx].hasStatus
    /\ fetchData[idx].httpStatus.ok
    /\ ~fetchData[idx].pageContent.has

Extracted == classifyOp \in {"llm", "tick"}

\* classifyLinks has returned
Classified == classifyOp = "done"

\* the classification failed: no request went out for lack of a key, the
\* request was rejected, the response was not ok or not JSON, or the
\* classification array was empty or broke off at an item that is null
ClassificationFailed ==
    \/ classifyRequests = 0
    \/ classifier.kind # "object"
    \/ Len(classifier.items) = 0
    \/ \E j \in 1..Len(classifier.items) : classifier.items[j].isNull

\* links a and b differ at most in isCitation
SameLink(a, b) == [a EXCEPT !.isCitation = FALSE] = [b EXCEPT !.isCitation = FALSE]

SameLinks(as, bs) ==
    /\ Len(as) = Len(bs)
    /\ \A k \in 1..Len(as) : SameLink(as[k], bs[k])

\* C13: classifyLinks returns the array it was given, with the same links in
\* the same order, and processText sees no error; when the classification
\* failed, every isCitation is what isCitationHeuristicLink says, alone.
C13_FallbackIsHeuristicAlone ==
    Classified =>
        /\ alerts = <<>>
        /\ currentLinks = linkArray
        /\ SameLinks(linkArray, extractUnique(trim(inputText)))
        /\ ClassificationFailed =>
              \A k \in 1..Len(linkArray) :
                  linkArray[k].isCitation = isCitationHeuristicLink(linkArray[k])

\* classifyLinks returned after a response that was not ok, with links the
\* heuristic takes for citations and links it does not
C13_Witness ==
    /\ Classified
    /\ classifyRequests = 1
    /\ classifier.kind = "status"
    /\ \E k, j \in 1..Len(linkArray) : linkArray[k].isCitation /\ ~linkArray[j].isCitation

\* the labels the override pass is meant to start from
LabelsBeforeOverride ==
    IF ClassificationFailed
    THEN fallbackClassification(extractUnique(trim(inputText)))
    ELSE merged

\* C14 as stated: on a non-empty list the labels classifyLinks returns are
\* those the override pass refineWithHeuristics leaves, after a merge of the
\* model's labels and after a fallback alike.
C14_OverridePassAlwaysRuns ==
    (Classified /\ Len(linkArray) > 0) =>
        linkArray = refineWithHeuristics(LabelsBeforeOverride)

\* C14 amended: on a non-empty list classifyLinks runs the override pass
\* when it has merged the model's labels, and only then: after a fallback
\* it returns the labels of fallbackClassification as they are.
C14_OverridePassAfterMergeOnly ==
    (Classified /\ Len(linkArray) > 0) =>
        IF ClassificationFailed
        THEN linkArray = LabelsBeforeOverride
        ELSE linkArray = refineWithHeuristics(LabelsBeforeOverride)

\* the model's labels were merged and the override pass changed one of them
C14_Witness ==
    /\ Classified
    /\ ~ClassificationFailed
    /\ \E k \in 1..Len(linkArray) : linkArray[k].isCitation # merged[k].isCitation

AnchorHasDigitOrPercent(link) ==
    \E i \in 1..Len(link.text) : IsDigit(link.text[i]) \/ link.text[i] = "%"

\* C15: once classifyLinks has returned, every link whose anchor text holds
\* a digit or a percent sign is a citation, whatever the model answered.
C15_NumericAnchorIsCitation ==
    Classified =>
        \A k \in 1..Len(linkArray) :
            AnchorHasDigitOrPercent(linkArray[k]) => linkArray[k].isCitation

\* the model labelled REGULAR a link with a generic phrase and a figure in
\* its anchor, and it came out a citation
C15_Witness ==
    /\ Classified
    /\ ~ClassificationFailed
    /\ \E k \in 1..Len(linkArray) :
          /\ AnchorHasDigitOrPercent(linkArray[k])
          /\ includes(toLowerCase(linkArray[k].text), <<"l", "e", "a", "r", "n", " ", "m", "o", "r", "e">>)
          /\ ~merged[k].isCitation
          /\ linkArray[k].isCitation

\* the generic phrases the claim lists
C16_ListedPhrases ==
    { <<"h", "o", "m", "e", "p", "a", "g", "e">>,
      <<"h", "o", "m", "e">>,
      <<"l", "e", "a", "r", "n", " ", "m", "o", "r", "e">>,
      <<"c", "l", "i", "c", "k", " ", "h", "e", "r", "e">>,
      <<"r", "e", "a", "d", " ", "m", "o", "r", "e">>,
      <<"a", "b", "o", "u", "t", " ", "u", "s">>,
      <<"c", "o", "n", "t", "a", "c", "t">>,
      <<"w", "h", "a", "t", " ", "i", "s">>,
      <<"g", "u", "i", "d", "e">>,
      <<"o", "v", "e", "r", "v", "i", "e", "w">> }

AnchorLower(link) == toLowerCase(link.text)

AnchorHasDigit(link) == \E i \in 1..Len(link.text) : IsDigit(link.text[i])

\* the override pass turned link k from CITATION to REGULAR
TurnedRegular(k) == merged[k].isCitation /\ ~linkArray[k].isCitation

\* C16 as stated: the override pass turns a CITATION into REGULAR exactly when
\* the anchor text contains one of the ten listed phrases and no numeral.
C16_DemotedExactlyOnListedPhrase ==
    (Classified /\ merged # <<>>) =>
        \A k \in 1..Len(linkArray) :
            merged[k].isCitation =>
                (TurnedRegular(k) <=>
                    /\ \E ph \in C16_ListedPhrases : includes(AnchorLower(linkArray[k]), ph)
                    /\ ~AnchorHasDigit(linkArray[k]))

\* C16 amended: the override pass turns a CITATION into REGULAR exactly when
\* the lower-cased anchor text contains one of the listed phrases or
\* "abm strategies", and contains neither a digit nor a percent sign.
C16_DemotedExactlyOnGenericAnchor ==
    (Classified /\ merged # <<>>) =>
        \A k \in 1..Len(linkArray) :
            merged[k].isCitation =>
                (TurnedRegular(k) <=>
                    /\ \E ph \in C16_ListedPhrases \cup {<<"a", "b", "m", " ", "s", "t", "r", "a", "t", "e", "g", "i", "e", "s">>} :
                          includes(AnchorLower(linkArray[k]), ph)
                    /\ ~AnchorHasDigitOrPercent(linkArray[k]))

\* the model labelled everything CITATION; a generic anchor was turned
\* REGULAR and one with a percent sign was not
C16_Witness ==
    /\ Classified
    /\ merged # <<>>
    /\ \E k, j \in 1..Len(linkArray) :
          /\ TurnedRegular(k)
          /\ merged[j].isCitation /\ linkArray[j].isCitation
          /\ includes(AnchorLower(linkArray[j]), <<"r", "e", "a", "d", " ", "m", "o", "r", "e">>)
          /\ AnchorHasDigitOrPercent(linkArray[j])

\* C17: the context of every extracted link is at most 360 characters long,
\* the truncation mark included, and is not empty (the paragraph of a link
\* holds at least the link and is never empty).
C17_ContextBounded ==
    \A k \in 1..Len(linkArray) :
        /\ Len(linkArray[k].context) <= 360
        /\ linkArray[k].context # <<>>

\* the first position of a url among the links extract found
FirstWithUrl(all, url) == MinOf({j \in 1..Len(all) : all[j].url = url})

UniqueOf(unique, all) ==
    /\ Len(unique) = Cardinality({all[j].url : j \in 1..Len(all)})
    /\ \A k \in 1..Len(unique) :
          /\ \E j \in 1..Len(all) : all[j].url = unique[k].url
          /\ unique[k] = all[FirstWithUrl(all, unique[k].url)]
          /\ unique[k].isCitation = FALSE
          /\ unique[k].status = "pending"
    /\ \A k, j \in 1..Len(unique) :
          k < j => FirstWithUrl(all, unique[k].url) < FirstWithUrl(all, unique[j].url)

\* C18: what extractUnique returns is, for every url extract found, the
\* first link with that url, in the order of these first occurrences, each
\* with isCitation = false and status = pending.
C18_FirstOccurrencePerUrl ==
    Extracted => UniqueOf(linkArray, extract(trim(inputText)))

\* a text with a repeated url was extracted: the later link was dropped
C18_Witness ==
    /\ Extracted
    /\ Len(linkArray) = 2
    /\ Len(extract(trim(inputText))) = 3
    /\ extract(trim(inputText))[3].url = linkArray[1].url

\* ------------------------------------------------------------------------
\* Properties of startFactChecking
\* ------------------------------------------------------------------------
\* C19: with no key in the key input startFactChecking starts nothing: no
\* update, no proxy or LLM request, no batch, and the verify button stays
\* enabled.
C19_NoKeyNoRun ==
    keyInput = NoKey =>
        /\ phase = "idle"
        /\ batches = <<>>
        /\ ~verifyBtnDisabled
        /\ \A idx \in Indices :
              /\ updates[idx] = <<>>
              /\ requests[idx] = [probe |-> 0, content |-> 0, llm |-> 0]

\* the verify button was clicked with links in the table and no key
C19_Witness ==
    /\ keyInput = NoKey
    /\ N > 0
    /\ alerts = <<NoKeyAlert>>

\* every link has received a terminal status update
AllTerminal == \A idx \in Indices : TerminalUpdates(idx) # {}

\* C20: when every request settles, a started run returns, and by then
\* every link has received a terminal status update.
C20_RunTerminates == (phase # "idle") ~> (Done /\ AllTerminal)

\* a run of two fetch batches and three verify batches has returned
C20_Witness ==
    /\ Done
    /\ N = fetchBatchSize + 1
    /\ Len(batches) = 5
    /\ AllTerminal

\* the page content of link idx was fetched
ContentFetched(idx) ==
    /\ fetchOp[idx] = "done"
    /\ ~IsHttpError(fetchData[idx])
    /\ fetchData[idx].pageContent.has

\* an extraction that found links has sent exactly one classification request
OneClassificationRequest ==
    /\ classifyRequests <= 1
    /\ (Classified /\ Len(linkArray) > 0) => classifyRequests = 1

\* a run sends one LLM request for a link whose page content was fetched,
\* none for any other link, and never a second one
OneRequestPerFetchedLink ==
    \A idx \in Indices :
        /\ requests[idx].llm <= 1
        /\ Done => (requests[idx].llm = 1 <=> ContentFetched(idx))

\* C21: one extraction issues exactly one batch classification request, a
\* verification run issues one LLM request per link whose page content was
\* fetched, and no LLM request is repeated for a link within a run.
C21_OneRequestEach == OneClassificationRequest /\ OneRequestPerFetchedLink

\* the fetch-url proxy has answered the request
FetchUrlAnswered == fnRequest.endpoint = "fetch-url" /\ fnResponse # NoFunctionResponse

\* the url parameter is missing, does not parse, or is not an http(s) address
BadUrlParam(param) ==
    \/ ~param.present
    \/ ~UrlParses(param.value)
    \/ Protocol(trim(param.value)) \notin HttpProtocols

\* the response allows any origin and its JSON body has the member error
CorsJsonError(response) ==
    /\ response.allowOrigin = AnyOrigin
    /\ response.contentType = "application/json"
    /\ "error" \in DOMAIN response.json

\* the target answered with a status outside 200..299
UpstreamNotOk(target) == target.kind # "unreachable" /\ (target.code < 200 \/ target.code > 299)

\* an OPTIONS request succeeds with CORS headers; every error has CORS headers
\* and a JSON body with error; a bad url parameter gets 400 and no fetch
FetchUrlRejections ==
    FetchUrlAnswered =>
        /\ fnRequest.method = "OPTIONS" =>
              /\ fnResponse.status \in 200..299
              /\ fnResponse.allowOrigin = AnyOrigin
              /\ fnResponse.fetches = 0
        /\ fnResponse.status >= 400 => CorsJsonError(fnResponse)
        /\ (fnRequest.method # "OPTIONS" /\ BadUrlParam(fnRequest.param)) =>
              /\ fnResponse.status = 400
              /\ fnResponse.fetches = 0
        /\ (fnRequest.method # "OPTIONS" /\ ~BadUrlParam(fnRequest.param)
                /\ fnWorld.target.kind = "unreachable") => fnResponse.status = 500

\* a target that does not answer ok has its status handed on
UpstreamStatusHandedOn ==
    (FetchUrlAnswered /\ fnRequest.method # "OPTIONS" /\ ~BadUrlParam(fnRequest.param)
        /\ UpstreamNotOk(fnWorld.target)) => fnResponse.status = fnWorld.target.code

\* C22: the fetch-url proxy answers OPTIONS with success and permissive CORS
\* headers; every error has permissive CORS headers and a JSON body with
\* error: 400 for a missing, unparsable or non-http(s) url parameter without
\* an upstream fetch, the upstream status when the upstream response is not
\* ok, 500 on an unexpected exception.
C22_FetchUrlErrorResponses == FetchUrlRejections /\ UpstreamStatusHandedOn

\* the LLM proxy has answered the request
ChatProxyAnswered ==
    fnRequest.endpoint \in {"openrouter", "openrouter-routes"} /\ fnResponse # NoFunctionResponse

\* the body of the request parsed and its messages are an array with an element
NonEmptyMessages(body) ==
    body.kind = "object" /\ body.messages.kind = "array" /\ body.messages.length >= 1

HealthBody == [shape |-> "health", ok |-> TRUE, route |-> "/api/openrouter"]

\* C23: the LLM proxy dispatches on the method: GET returns the health body;
\* POST contacts the provider only when messages is a non-empty array and the
\* server credential is configured, and else answers 400 (messages) or 500
\* (credential, unreadable body) without contacting it; OPTIONS returns a
\* success; every other method returns 405 with a JSON error body.
C23_LlmProxyDispatch ==
    ChatProxyAnswered =>
        /\ fnRequest.method = "GET" =>
              /\ fnResponse.status = 200
              /\ fnResponse.json = HealthBody
              /\ fnResponse.fetches = 0
        /\ fnRequest.method = "POST" =>
              /\ fnResponse.fetches =
                    IF NonEmptyMessages(fnRequest.body) /\ fnWorld.env.OPENROUTER_API_KEY # NoKey
                    THEN 1 ELSE 0
              /\ fnResponse.fetches = 1 =>
                    /\ fnResponse.forwarded.messages = fnRequest.body.messages.length
                    /\ fnResponse.forwarded.model # ""
              /\ fnResponse.fetches = 0 =>
                    /\ fnResponse.status =
                          IF fnRequest.body.kind # "invalid" /\ ~NonEmptyMessages(fnRequest.body)
                          THEN 400 ELSE 500
                    /\ "error" \in DOMAIN fnResponse.json
        /\ fnRequest.method = "OPTIONS" =>
              /\ fnResponse.status \in 200..299
              /\ fnResponse.fetches = 0
        /\ fnRequest.method \notin {"GET", "POST", "OPTIONS"} =>
              /\ fnResponse.status = 405
              /\ fnResponse.contentType = "application/json"
              /\ "error" \in DOMAIN fnResponse.json
              /\ fnResponse.fetches = 0

\* a POST with one message and a configured credential was forwarded, and the
\* provider's 429 handed back
C23_Witness ==
    /\ ChatProxyAnswered
    /\ fnRequest.endpoint = "openrouter"
    /\ fnRequest.method = "POST"
    /\ fnRequest.body.messages = [kind |-> "array", length |-> 1]
    /\ fnResponse.fetches = 1
    /\ fnResponse.status = 429

\* the gate of a citation came to its figure check: the model answered
\* isCorrect with a quote that is on the fetched page
FigureChecked(idx) ==
    /\ links[idx].isCitation
    /\ verifyOp[idx] = "done"
    /\ ModelSaidCorrect(idx)
    /\ QuoteOnFetchedPage(idx)

\* C24: _quoteHasFigure accepts every quote in which the figure stands as a
\* number of its own, wherever it stands (at the start of the quote, after a
\* newline, directly after a letter), and a decimal figure matches only its
\* literal text.
C24_StandaloneFigureAccepted ==
    \A idx \in Indices :
        FigureChecked(idx) =>
            \A k \in 1..Len(_extractFigures(links[idx].context)) :
                /\ StandaloneIn(OrEmpty(world[idx].llm.exactQuote),
                                _extractFigures(links[idx].context)[k])
                      => _quoteHasFigure(OrEmpty(world[idx].llm.exactQuote),
                                         _extractFigures(links[idx].context)[k])
                /\ _quoteHasFigure(OrEmpty(world[idx].llm.exactQuote),
                                   _extractFigures(links[idx].context)[k])
                      => includes(OrEmpty(world[idx].llm.exactQuote),
                                  _extractFigures(links[idx].context)[k])

\* the model's answer for citation idx arrived as an object and its gate ran
CitationJudged(idx) ==
    /\ links[idx].isCitation
    /\ verifyOp[idx] = "done"
    /\ requests[idx].llm > 0
    /\ world[idx].llm.kind = "object"
    /\ world[idx].llm.exactQuote.t # "num"

\* the gate demoted a citation the model approved
GateDemoted(idx) ==
    /\ CitationJudged(idx)
    /\ world[idx].llm.verdict
    /\ verifyResult[idx].status = "inaccurate"

\* C25: the analysis of a citation tells its outcome: demoted by the gate, it
\* starts with "Marked as Recheck: " and the failed check; judged incorrect by
\* the model, it is the model's reasoning without that prefix (a redirect note
\* may follow); verified, it starts with the exact quote line.
C25_AnalysisTellsOutcome ==
    \A idx \in Indices :
        /\ GateDemoted(idx) =>
              \/ IsPrefix(<<"Marked as Recheck: ">> \o NoQuoteReason \o <<". ", "${reasoning}">>,
                          verifyResult[idx].analysis)
              \/ IsPrefix(<<"Marked as Recheck: ">> \o FigureReason \o <<". ", "${reasoning}">>,
                          verifyResult[idx].analysis)
        /\ (CitationJudged(idx) /\ ~world[idx].llm.verdict) =>
              /\ verifyResult[idx].status = "inaccurate"
              /\ IsPrefix(<<"${reasoning}">>, verifyResult[idx].analysis)
              /\ "Marked as Recheck: " \notin Range(verifyResult[idx].analysis)
        /\ (links[idx].isCitation /\ verifyOp[idx] = "done"
                /\ verifyResult[idx].status = "verified") =>
              /\ IsPrefix(<<CheckMark, " Exact quote: \"", "${exactQuote}">>,
                          verifyResult[idx].analysis)
              /\ "Marked as Recheck: " \notin Range(verifyResult[idx].analysis)

\* a citation the model approved with a quote that is on the page but lacks
\* the figure of the context was demoted
C25_Witness ==
    \E idx \in Indices :
        /\ GateDemoted(idx)
        /\ QuoteOnFetchedPage(idx)
        /\ IsPrefix(<<"Marked as Recheck: ">> \o FigureReason, verifyResult[idx].analysis)

\* the override pass turned link k from REGULAR to CITATION
TurnedCitation(k) == ~merged[k].isCitation /\ linkArray[k].isCitation

\* rule 1: the anchor text contains a numeral or a percent sign
RuleOne(link) == AnchorHasDigitOrPercent(link)

\* rule 2: the sentence has an unlinked number and the anchor text or the URL
\* contains a source-indicating word or URL hint
RuleTwo(link) ==
    /\ Len(link.features.unlinkedNumbers) > 0
    /\ \/ SomeIn(plausibleStatWords, AnchorLower(link))
       \/ SomeIn(plausibleUrlHints, toLowerCase(link.url))

\* rule 3: the context-level heuristic
RuleThree(link) == isCitationHeuristic(link.context, link.text, link.url)

\* the anchor text contains a generic phrase and neither a digit nor a percent sign
GenericAnchor(link) ==
    /\ SomeIn(genericPhrases, AnchorLower(link))
    /\ ~AnchorHasDigitOrPercent(link)

\* the anchor text has a statistics word and the URL a statistics hint
StatAnchorAndUrl(link) ==
    /\ SomeIn(strongStatWords, AnchorLower(link))
    /\ SomeIn(strongUrlWords, toLowerCase(link.url))

HeuristicLabels == Classified /\ ClassificationFailed /\ Len(linkArray) > 0

\* a digit, a percent sign or the word percent after a blank
NumberIn(s) ==
    \/ \E i \in 1..Len(s) : IsDigit(s[i]) \/ s[i] = "%"
    \/ includes(toLowerCase(s), <<" ", "p", "e", "r", "c", "e", "n", "t">>)

VerbIn(context) == SomeIn(verbs, toLowerCase(context))

StatTermIn(s) == SomeIn(statTerms, toLowerCase(s))

StatsUrl(url) == SomeIn(urlHints, toLowerCase(url))

\* rule 3 as the ordered decision list states it: an attribution verb in the
\* context with a number in the context or a statistics term in context or
\* anchor; or a number in context or anchor with a URL that suggests statistics
ListedRuleThree(link) ==
    \/ VerbIn(link.context)
          /\ (NumberIn(link.context) \/ StatTermIn(link.context) \/ StatTermIn(link.text))
    \/ (NumberIn(link.context) \/ NumberIn(link.text)) /\ StatsUrl(link.url)

\* C27 as stated: the heuristic classifier labels a link CITATION exactly when
\* rule 1, 2 or 3 holds; in particular a link with no number in anchor text
\* or context and no attribution verb in its context is REGULAR.
C27_CitationExactlyOnListedRules ==
    HeuristicLabels =>
        \A k \in 1..Len(linkArray) :
            /\ linkArray[k].isCitation <=>
                  (RuleOne(linkArray[k]) \/ RuleTwo(linkArray[k]) \/ ListedRuleThree(linkArray[k]))
            /\ (~NumberIn(linkArray[k].text) /\ ~NumberIn(linkArray[k].context)
                    /\ ~VerbIn(linkArray[k].context)) => ~linkArray[k].isCitation

\* C27 amended: the heuristic classifier labels a link CITATION exactly when
\* its anchor has a numeral, a percent sign or the word percent, or rule 2
\* holds, or its context has an attribution verb with a number or statistics
\* term in the context or a statistics term in the anchor, or its URL suggests
\* statistics with a number in the context or a statistics term in the anchor;
\* in particular a link with no number in anchor text or context, no unlinked
\* number, no attribution verb in its context, and not both a statistics term
\* in its anchor and a URL that suggests statistics, is REGULAR.
C27_CitationExactlyOnCodedRules ==
    HeuristicLabels =>
        \A k \in 1..Len(linkArray) :
            /\ linkArray[k].isCitation <=>
                  \/ NumberIn(linkArray[k].text)
                  \/ RuleTwo(linkArray[k])
                  \/ VerbIn(linkArray[k].context)
                        /\ \/ NumberIn(linkArray[k].context)
                           \/ StatTermIn(linkArray[k].context)
                           \/ StatTermIn(linkArray[k].text)
                  \/ StatsUrl(linkArray[k].url)
                        /\ (NumberIn(linkArray[k].context) \/ StatTermIn(linkArray[k].text))
            /\ (/\ ~NumberIn(linkArray[k].text)
                /\ ~NumberIn(linkArray[k].context)
                /\ linkArray[k].features.unlinkedNumbers = <<>>
                /\ ~VerbIn(linkArray[k].context)
                /\ ~(StatTermIn(linkArray[k].text) /\ StatsUrl(linkArray[k].url)))
               => ~linkArray[k].isCitation

\* the heuristic classifier alone labelled a list with a link without number
\* and verb that is a citation for its statistics anchor and URL
C27_Witness ==
    /\ HeuristicLabels
    /\ \E k \in 1..Len(linkArray) :
          /\ linkArray[k].isCitation
          /\ ~NumberIn(linkArray[k].text)
          /\ ~NumberIn(linkArray[k].context)
          /\ ~VerbIn(linkArray[k].context)
          /\ StatTermIn(linkArray[k].text)
          /\ StatsUrl(linkArray[k].url)
    /\ \E k \in 1..Len(linkArray) :
          /\ linkArray[k].isCitation
          /\ includes(AnchorLower(linkArray[k]), <<" ", "p", "e", "r", "c", "e", "n", "t">>)

\* extractUnique has returned the links of the text
LinksExtracted == Extracted \/ Classified

\* the markdown of a link as it stands in a normalised sentence
LinkMarkdown(link) == CollapseWs(<<"[">> \o link.text \o <<"]", "(">> \o link.url \o <<")">>)

\* C28: the sentence of a link runs between sentence boundaries; punctuation
\* inside the link target does not end it, so the sentence contains the
\* complete markdown of the link and the text after it up to the boundary:
\* for "According to a [study](https://example.com/study) 81% of users agreed."
\* the sentence is the whole text and its numbers include 81%.
C28_SentenceHoldsWholeLink ==
    LinksExtracted =>
        /\ \A k \in 1..Len(linkArray) :
              includes(linkArray[k].sentence, LinkMarkdown(linkArray[k]))
        /\ inputText = DocStudy =>
              /\ Len(linkArray) = 1
              /\ linkArray[1].sentence = DocStudy
              /\ \E j \in 1..Len(linkArray[1].features.sentenceNumbers) :
                    linkArray[1].features.sentenceNumbers[j] = <<"8", "1", "%">>

\* the numeric tokens of the anchors of every link of the sentence, and of
\* the link's own anchor
AnchorNumbersOfSentence(link) ==
    numsInAnchorsAll(link.sentence, 0) \o _extractNumberTokens(link.text)

\* C29: the unlinked numbers of a link are the numeric tokens of its sentence
\* that, commas and a trailing percent sign removed, equal no numeric token in
\* the anchor text of any link of the sentence, the link itself and earlier
\* links included, wherever the sentence stands in the document.
C29_UnlinkedAgainstEveryAnchor ==
    LinksExtracted =>
        \A k \in 1..Len(linkArray) :
            linkArray[k].features.unlinkedNumbers =
                SelectSeq(_extractNumberTokens(AnchorsInlined(linkArray[k].sentence, 0)),
                          LAMBDA n : \A j \in 1..Len(AnchorNumbersOfSentence(linkArray[k])) :
                                        norm(AnchorNumbersOfSentence(linkArray[k])[j]) # norm(n))

\* C30: the sentence of a link occurs in full inside its context, also when
\* the context was truncated and when the link's position matched no sentence.
C30_SentenceInsideContext ==
    LinksExtracted =>
        \A k \in 1..Len(linkArray) : includes(linkArray[k].context, linkArray[k].sentence)


\* ------------------------------------------------------------------------
\* C31: the deterministic classification rules are idempotent
\* ------------------------------------------------------------------------
Labellings(ls) == [1..Len(ls) -> BOOLEAN]

Relabelled(ls, labels) == [k \in 1..Len(ls) |-> [ls[k] EXCEPT !.isCitation = labels[k]]]

IsCitationOf(ls) == [k \in 1..Len(ls) |-> ls[k].isCitation]

RefineIdempotentOn(ls) ==
    IsCitationOf(refineWithHeuristics(refineWithHeuristics(ls)))
        = IsCitationOf(refineWithHeuristics(ls))

FallbackIdempotentOn(ls) ==
    IsCitationOf(fallbackClassification(fallbackClassification(ls)))
        = IsCitationOf(fallbackClassification(ls))

\* C31: on the classified link list under every labelling of it, a second
\* pass of fallbackClassification or of refineWithHeuristics leaves the
\* isCitation values of the first pass, and fallbackClassification gives the
\* same isCitation values whatever the links were labelled before
C31_RulesIdempotent ==
    Classified =>
        \A labels \in Labellings(currentLinks) :
            /\ RefineIdempotentOn(Relabelled(currentLinks, labels))
            /\ FallbackIdempotentOn(Relabelled(currentLinks, labels))
            /\ IsCitationOf(fallbackClassification(Relabelled(currentLinks, labels)))
                  = IsCitationOf(fallbackClassification(currentLinks))

\* a classified list with a link the override pass promotes and then
\* demotes, and a link the fallback labels against its current label
C31_Witness ==
    /\ Classified
    /\ \E k \in 1..Len(currentLinks) :
          /\ Promoted([currentLinks[k] EXCEPT !.isCitation = FALSE]).isCitation
          /\ ~Demoted([currentLinks[k] EXCEPT !.isCitation = TRUE]).isCitation
    /\ \E k \in 1..Len(currentLinks) :
          fallbackClassification(currentLinks)[k].isCitation # currentLinks[k].isCitation


\* ------------------------------------------------------------------------
\* C32: the status object of checkHttpStatus
\* ------------------------------------------------------------------------
StatusProbed == fnRequest.endpoint = "checkHttpStatus" /\ fnResponse # NoFunctionResponse

\* the proxy's answer carries an HTTP code and a final URL
CarriesCode == ~fnWorld.response.rejected /\ fnWorld.response.json.shape = "page"

ProbedCode == fnWorld.response.json.status.http_code

FinalUrl == fnWorld.response.json.status.url

PhraseFor(c, phrase) == ProbedCode = c => fnResponse.statusText = phrase

\* C32: for an answer carrying HTTP code c, ok is reported exactly when
\* 200 <= c < 400; the phrase is Not Found for 404, Forbidden for 403,
\* Server Error for 500 and Unknown for every other code; redirectUrl is
\* reported, and is the final URL, exactly when the final URL differs from
\* the requested one
C32_StatusObject ==
    StatusProbed /\ CarriesCode =>
        /\ fnResponse.ok <=> (ProbedCode >= 200 /\ ProbedCode < 400)
        /\ fnResponse.status = ProbedCode
        /\ PhraseFor(404, "Not Found")
        /\ PhraseFor(403, "Forbidden")
        /\ PhraseFor(500, "Server Error")
        /\ ProbedCode \notin {404, 403, 500} => fnResponse.statusText = "Unknown"
        /\ fnResponse.redirectUrl # NullUrl <=> FinalUrl # fnRequest.url
        /\ fnResponse.redirectUrl # NullUrl => fnResponse.redirectUrl = FinalUrl

\* code 399 with a final URL other than the requested one: ok, redirect reported
C32_Witness ==
    /\ StatusProbed
    /\ CarriesCode
    /\ ProbedCode = 399
    /\ fnResponse.ok
    /\ fnResponse.redirectUrl = FinalUrl
    /\ FinalUrl # fnRequest.url


\* ------------------------------------------------------------------------
\* C33: fetchLinkData turns exceptions into data
\* ------------------------------------------------------------------------
\* the probe of idx threw: the request was rejected, or the body has no status
ProbeThrew(idx) ==
    \/ world[idx].probe = "rejected"
    \/ ProxyResponse(idx, "probe").json.shape = "error"

\* the content request of idx was sent and fetchPageContent threw on it
ContentThrew(idx) ==
    /\ requests[idx].content > 0
    /\ \/ world[idx].content = "rejected"
       \/ ~ProxyResponse(idx, "content").ok

FetchResolved(idx) == fetchOp[idx] = "done"

ContentUnavailableData(idx) ==
    /\ fetchData[idx].httpStatus.ok
    /\ ~fetchData[idx].pageContent.has
    /\ fetchData[idx].error = <<"Content unavailable">>

\* C33: every fetchLinkData call that has settled resolved with a data object
\* holding a status; a probe that threw gives the optimistic ok status and the
\* content request is sent; a content fetch that threw leaves an ok status,
\* no page content and error "Content unavailable", and the link is then
\* never invalid: a citation ends inaccurate with the content-unavailable
\* analysis, a regular link verified, and no LLM request is sent for it
C33_FetchFailuresAreData ==
    \A idx \in Indices :
        /\ FetchResolved(idx) =>
              /\ fetchData[idx].hasStatus
              /\ ProbeThrew(idx) =>
                    /\ fetchData[idx].httpStatus = OptimisticStatus
                    /\ requests[idx].content = 1
              /\ ContentThrew(idx) => ContentUnavailableData(idx)
        /\ (FetchResolved(idx) /\ ContentThrew(idx)) =>
              /\ \A k \in 1..Len(updates[idx]) : updates[idx][k].status # "invalid"
              /\ requests[idx].llm = 0
              /\ Done =>
                    /\ results[idx].status =
                          IF links[idx].isCitation THEN "inaccurate" ELSE "verified"
                    /\ results[idx].analysis =
                          IF links[idx].isCitation THEN ContentUnavailable
                          ELSE LiveAnalysis(results[idx])
        /\ Done => FetchResolved(idx)

\* a run ended with a citation whose probe and whose content fetch both threw
C33_Witness ==
    /\ Done
    /\ \E idx \in Indices :
          /\ world[idx].probe = "rejected"
          /\ ContentThrew(idx)
          /\ fetchData[idx].httpStatus = OptimisticStatus
          /\ results[idx].status = "inaccurate"


\* ------------------------------------------------------------------------
\* C34: the status field of the link record
\* ------------------------------------------------------------------------
\* C34: after a factCheckLinks run the status field of every link holds the
\* terminal status reached for it, so no verified link still reads pending
C34_LinkHoldsTerminalStatus ==
    Done =>
        \A idx \in Indices :
            /\ links[idx].status = results[idx].status
            /\ links[idx].status # "pending"


\* ------------------------------------------------------------------------
\* C35: a relevance check that fails at transport level
\* ------------------------------------------------------------------------
\* the relevance request of the regular link idx was answered with a
\* response that is not ok
RelevanceNotOk(idx) ==
    /\ ~links[idx].isCitation
    /\ requests[idx].llm > 0
    /\ world[idx].llm.kind = "status"

\* C35: a regular link whose relevance request is answered with a
\* non-success response ends verified with an analysis that says relevance
\* could not be verified and does not say the anchor text is relevant
C35_RelevanceFailureIsTold ==
    Done =>
        \A idx \in Indices :
            RelevanceNotOk(idx) =>
                /\ results[idx].status = "verified"
                /\ "Could not verify relevance (" \in Range(results[idx].analysis)
                /\ "Link is live and anchor text is relevant to the page."
                      \notin Range(results[idx].analysis)


\* ------------------------------------------------------------------------
\* C36: a page fetched with no text
\* ------------------------------------------------------------------------
\* the page of idx was fetched (status ok, response ok) and its text is empty
EmptyPageFetched(idx) ==
    /\ fetchOp[idx] = "done"
    /\ fetchData[idx].httpStatus.ok
    /\ fetchData[idx].pageContent.has
    /\ fetchData[idx].pageContent.text = <<>>

\* C36: a link whose page was fetched with empty text is handled as content
\* unavailable: no LLM request is sent for it, a citation ends inaccurate
\* with the content-unavailable analysis and a regular link ends verified
\* with the analysis of a live link, with no relevance verdict
C36_EmptyPageIsContentUnavailable ==
    \A idx \in Indices :
        EmptyPageFetched(idx) =>
            /\ requests[idx].llm = 0
            /\ Done =>
                  /\ results[idx].status =
                        IF links[idx].isCitation THEN "inaccurate" ELSE "verified"
                  /\ results[idx].analysis =
                        IF links[idx].isCitation THEN ContentUnavailable
                        ELSE LiveAnalysis(results[idx])


\* ------------------------------------------------------------------------
\* C37: slot i belongs to link i
\* ------------------------------------------------------------------------
\* the data handed to the verifyLink call of idx is the data that the
\* fetchLinkData call of idx resolved with
VerifiedOnOwnData(idx) ==
    /\ allFetchedData[idx].link = links[idx].url
    /\ allFetchedData[idx] = fetchData[idx]

SlotOfLink(idx) ==
    /\ VerifyStarted(idx) =>
          /\ VerifiedOnOwnData(idx)
          /\ verifyResult[idx].originalUrl = links[idx].url
    /\ \A k \in 1..Len(updates[idx]) : updates[idx][k].originalUrl = links[idx].url
    /\ (Len(results) = N /\ results[idx] # EmptySlot) =>
          /\ results[idx] = verifyResult[idx]
          /\ results[idx].originalUrl = links[idx].url

\* a slot of the result array that holds a result is not written again
SlotsWrittenOnce ==
    \A idx \in 1..Len(results) :
        results[idx] # EmptySlot => results'[idx] = results[idx]

\* C37: in every state link i is verified on the data fetched for link i,
\* every update delivered with index i and the result in slot i name the URL
\* of link i, and a filled result slot is never written a second time
C37_SlotBelongsToLink ==
    /\ [](\A idx \in Indices : SlotOfLink(idx))
    /\ [][SlotsWrittenOnce]_vars

\* a run over several fetch and verify batches ended, with links of
\* different URLs in every slot
C37_Witness ==
    /\ Done
    /\ N > fetchBatchSize
    /\ \A idx \in Indices : results[idx].originalUrl = links[idx].url
    /\ \E i, j \in Indices : links[i].url # links[j].url /\ fetchData[i] # fetchData[j]


\* ------------------------------------------------------------------------
\* C38: updates and the rows they are applied to
\* ------------------------------------------------------------------------
\* C38: every update applied to row i of the table in the page describes the
\* link shown in row i: the updates of a run on an earlier link set do not
\* reach the rows of a table rendered since
C38_UpdatesDescribeShownLink ==
    \A idx \in Indices :
        \A k \in 1..Len(RowUpdates(idx)) :
            RowUpdates(idx)[k].originalUrl = table.urls[idx]


\* ------------------------------------------------------------------------
\* C39: the key of the classification request
\* ------------------------------------------------------------------------
\* processText has called classifyLinks with a non-empty link list
ClassifyCalled == classifyOp # "none" /\ Len(linkArray) > 0

\* C39: whatever key edits and clicks came before, the classification
\* request of processText is sent, and is sent with the key processText read
\* from the key input and passed to classifyLinks: no key installed or
\* stored earlier takes its place, and the call does not go without a request
C39_ClassifiedWithInputKey ==
    ClassifyCalled => classifyCall.authorization = classifyCall.openaiApiKey

====
